---- MODULE Spec2Model ----
(***************************************************************************)
(* A model of Adcirc::Geometry::Mesh (src/src/mesh.cpp): the record        *)
(* collections, the identifier index (m_nodeLookup / m_elementLookup), the *)
(* ordering flags, the format readers, the structural edits and the        *)
(* kd-tree backed queries.                                                  *)
(*                                                                         *)
(* A Node* held by an element or a boundary is modelled as the address it  *)
(* denotes: the buffer generation of m_nodes it was taken from and the     *)
(* offset in that buffer.  The generation changes when the vector          *)
(* reallocates.                                                            *)
(*                                                                         *)
(* Adcirc::Output::OutputFile (src/src/outputfile.cpp) is modelled beside  *)
(* it as the record outputFile: its open/close session, its record reads   *)
(* and its record access.                                                  *)
(***************************************************************************)
EXTENDS Integers, Sequences, FiniteSets, TLC

\* ------------------------------------------------------------------ bounds
MaxNodes == 3
MaxId == 3
MaxElems == 2
MaxReads == 2
MaxLookups == 1
MaxEdits == 1
MaxGen == 2
MaxSorts == 2
MaxCoord == 2

\* the candidate depth of findElement
searchDepth == 20

\* ---------------------------------------------------------------- helpers
Min(a, b) == IF a < b THEN a ELSE b

Range(s) == {s[i] : i \in 1..Len(s)}

IsInjective(s) == \A i, j \in 1..Len(s) : s[i] = s[j] => i = j

SeqsUpTo(S, n) == UNION {[1..k -> S] : k \in 0..n}

\* std::unordered_map::operator[] : the mapped value, 0 for a key that is absent
\* (the key is then inserted with the value 0)
LookupGet(map, id) == IF id \in DOMAIN map THEN map[id] ELSE 0

LookupInsert(map, ids) == [k \in (DOMAIN map) \cup ids |-> LookupGet(map, k)]

EmptyLookup == [k \in {} |-> 0]

\* ------------------------------------------------------------- record types
Ptr(g, k) == [gen |-> g, k |-> k]

NullPtr == [gen |-> -1, k |-> 0]

\* Node() and Element(), the values std::vector::resize fills new slots with
DefaultNode == [id |-> 0, x |-> 0, y |-> 0, z |-> 0]

DefaultElement == [id |-> 0, n |-> << >>]

DefaultBoundary == [code |-> -1, length |-> 0, node1 |-> << >>, node2 |-> << >>]

NullTree == [null |-> TRUE, pts |-> << >>]

\* ------------------------------------------------------------------- state
VARIABLES
  m_nodes, m_nodesGen, m_elements, m_openBoundaries, m_landBoundaries,
  m_numNodes, m_numElements, m_numOpenBoundaries, m_numLandBoundaries,
  m_totalOpenBoundaryNodes, m_totalLandBoundaryNodes,
  m_nodeOrderingLogical, m_elementOrderingLogical,
  m_nodeLookup, m_elementLookup,
  m_nodalSearchTree, m_elementalSearchTree,
  m_epsg,
  pc,        \* "running", or "crashed" once the process has died
  lastOp,    \* the operation that ran last
  lastErr,   \* whether it raised an exception
  lastArg,   \* its argument (identifier, position, location index, request)
  lastRes,   \* its result
  lastFile,  \* the file the last read was given
  nreads, nlookups, nedits,
  outputFile \* the OutputFile object (src/src/outputfile.cpp), as one record

meshVars == <<m_nodes, m_nodesGen, m_elements, m_openBoundaries, m_landBoundaries,
  m_numNodes, m_numElements, m_numOpenBoundaries, m_numLandBoundaries,
  m_totalOpenBoundaryNodes, m_totalLandBoundaryNodes,
  m_nodeOrderingLogical, m_elementOrderingLogical,
  m_nodeLookup, m_elementLookup, m_epsg>>

treeVars == <<m_nodalSearchTree, m_elementalSearchTree>>

vars == <<meshVars, treeVars, pc, lastOp, lastErr, lastArg, lastRes, lastFile,
  nreads, nlookups, nedits, outputFile>>

\* the Mesh object as one record
Mesh == [
  nodes |-> m_nodes, nodesGen |-> m_nodesGen, elements |-> m_elements,
  openBoundaries |-> m_openBoundaries, landBoundaries |-> m_landBoundaries,
  numNodes |-> m_numNodes, numElements |-> m_numElements,
  numOpenBoundaries |-> m_numOpenBoundaries,
  numLandBoundaries |-> m_numLandBoundaries,
  totalOpenBoundaryNodes |-> m_totalOpenBoundaryNodes,
  totalLandBoundaryNodes |-> m_totalLandBoundaryNodes,
  nodeOrderingLogical |-> m_nodeOrderingLogical,
  elementOrderingLogical |-> m_elementOrderingLogical,
  nodeLookup |-> m_nodeLookup, elementLookup |-> m_elementLookup,
  nodalSearchTree |-> m_nodalSearchTree,
  elementalSearchTree |-> m_elementalSearchTree,
  epsg |-> m_epsg, err |-> FALSE]

Install(m) ==
  /\ m_nodes' = m.nodes
  /\ m_nodesGen' = m.nodesGen
  /\ m_elements' = m.elements
  /\ m_openBoundaries' = m.openBoundaries
  /\ m_landBoundaries' = m.landBoundaries
  /\ m_numNodes' = m.numNodes
  /\ m_numElements' = m.numElements
  /\ m_numOpenBoundaries' = m.numOpenBoundaries
  /\ m_numLandBoundaries' = m.numLandBoundaries
  /\ m_totalOpenBoundaryNodes' = m.totalOpenBoundaryNodes
  /\ m_totalLandBoundaryNodes' = m.totalLandBoundaryNodes
  /\ m_nodeOrderingLogical' = m.nodeOrderingLogical
  /\ m_elementOrderingLogical' = m.elementOrderingLogical
  /\ m_nodeLookup' = m.nodeLookup
  /\ m_elementLookup' = m.elementLookup
  /\ m_nodalSearchTree' = m.nodalSearchTree
  /\ m_elementalSearchTree' = m.elementalSearchTree
  /\ m_epsg' = m.epsg

\* an _init that leaves the boundaries and their counts as they are
MeshInitKeepingBoundaries(m) == [m EXCEPT
  !.epsg = IF m.epsg = -1 THEN 4326 ELSE m.epsg,
  !.nodalSearchTree = NullTree,
  !.elementalSearchTree = NullTree,
  !.numNodes = 0, !.numElements = 0,
  !.nodeOrderingLogical = TRUE, !.elementOrderingLogical = TRUE,
  !.nodes = << >>, !.nodesGen = 0, !.elements = << >>]

\* Mesh::_init: the counts, flags, collections and trees; not the two lookups.
\* No Node* is held anywhere once the collections are empty, so the buffer of
\* m_nodes is named generation 0 again.
MeshInit(m) == [m EXCEPT
  !.epsg = IF m.epsg = -1 THEN 4326 ELSE m.epsg,
  !.nodalSearchTree = NullTree,
  !.elementalSearchTree = NullTree,
  !.numNodes = 0, !.numElements = 0,
  !.numLandBoundaries = 0, !.numOpenBoundaries = 0,
  !.totalOpenBoundaryNodes = 0, !.totalLandBoundaryNodes = 0,
  !.nodeOrderingLogical = TRUE, !.elementOrderingLogical = TRUE,
  !.nodes = << >>, !.nodesGen = 0, !.elements = << >>,
  !.openBoundaries = << >>, !.landBoundaries = << >>]

\* Mesh::Mesh(): m_epsg(-1), empty containers, then _init()
Constructed == MeshInit([
  nodes |-> << >>, nodesGen |-> 0, elements |-> << >>,
  openBoundaries |-> << >>, landBoundaries |-> << >>,
  numNodes |-> 0, numElements |-> 0,
  numOpenBoundaries |-> 0, numLandBoundaries |-> 0,
  totalOpenBoundaryNodes |-> 0, totalLandBoundaryNodes |-> 0,
  nodeOrderingLogical |-> TRUE, elementOrderingLogical |-> TRUE,
  nodeLookup |-> EmptyLookup, elementLookup |-> EmptyLookup,
  nodalSearchTree |-> NullTree, elementalSearchTree |-> NullTree,
  epsg |-> -1, err |-> FALSE])

\* ------------------------------------------------------------ input files
\* A mesh file as the readers see it: the lines of each section, each either
\* well formed (ok) or not.  A line that is missing counts as malformed.
NodeLine(id, x, y, z) == [ok |-> TRUE, id |-> id, x |-> x, y |-> y, z |-> z]

BadNodeLine == [ok |-> FALSE, id |-> 0, x |-> 0, y |-> 0, z |-> 0]

ElemLine(id, n) == [ok |-> TRUE, id |-> id, n |-> n]

BadElemLine == [ok |-> FALSE, id |-> 0, n |-> << >>]

BndLine(n1, n2) == [ok |-> TRUE, n1 |-> n1, n2 |-> n2]

BadBndLine == [ok |-> FALSE, n1 |-> 0, n2 |-> 0]

FileBoundary(code, lines) == [ok |-> TRUE, code |-> code, lines |-> lines]

LineAt(lines, i, bad) == IF i <= Len(lines) THEN lines[i] ELSE bad

\* the number of lines, among the first n, that come before the first
\* malformed one
GoodPrefix(lines, n, bad) ==
  IF \A i \in 1..n : LineAt(lines, i, bad).ok THEN n
  ELSE (CHOOSE i \in 1..n : /\ ~LineAt(lines, i, bad).ok
                            /\ \A j \in 1..(i - 1) : LineAt(lines, j, bad).ok) - 1

\* std::vector::resize
Resize(s, n, default) == [i \in 1..n |-> IF i <= Len(s) THEN s[i] ELSE default]

\* the loop that fills a lookup: for (i = 0; i < num; ++i) lookup[rec[i].id()] = i
\* (num may differ from the size of the vector: slots past its end are read as
\* whatever the vector's storage holds, modelled as the default record's id 0)
FillLookup(map, recs, num) ==
  LET idAt(i) == IF i <= Len(recs) THEN recs[i].id ELSE 0
      ids == {idAt(i) : i \in 1..num}
      last(id) == CHOOSE i \in 1..num :
                    /\ idAt(i) = id
                    /\ \A j \in 1..num : idAt(j) = id => j <= i
  IN [k \in (DOMAIN map) \cup ids |-> IF k \in ids THEN last(k) - 1 ELSE map[k]]

\* ------------------------------------------------------- native ASCII reader
\* Mesh::readAdcircMeshHeader
ReadAdcircMeshHeader(m, f) ==
  IF f.hdr = "bad_ne" THEN [m EXCEPT !.err = TRUE]
  ELSE IF f.hdr = "bad_nn" THEN [m EXCEPT !.numElements = f.ne, !.err = TRUE]
  ELSE [m EXCEPT !.numElements = f.ne, !.numNodes = f.nn]

\* Mesh::readAdcircNodes
ReadAdcircNodes(m, f) ==
  LET nn == m.numNodes
      g == GoodPrefix(f.nodes, nn, BadNodeLine)
      sized == Resize(m.nodes, nn, DefaultNode)
      nodes == [i \in 1..nn |->
                  IF i <= g
                  THEN [id |-> f.nodes[i].id, x |-> f.nodes[i].x,
                        y |-> f.nodes[i].y, z |-> f.nodes[i].z]
                  ELSE sized[i]]
      logical == m.nodeOrderingLogical /\ \A i \in 1..g : f.nodes[i].id = i
  IN IF g < nn
     THEN [m EXCEPT !.nodes = nodes, !.nodeOrderingLogical = logical, !.err = TRUE]
     ELSE [m EXCEPT !.nodes = nodes, !.nodeOrderingLogical = logical,
             !.nodeLookup = IF logical THEN m.nodeLookup
                            ELSE FillLookup(m.nodeLookup, nodes, m.numNodes)]

\* &this->m_nodes[n - 1] or &this->m_nodes[this->m_nodeLookup[n]]
ResolveNode(m, nid) ==
  IF m.nodeOrderingLogical THEN Ptr(m.nodesGen, nid - 1)
  ELSE Ptr(m.nodesGen, LookupGet(m.nodeLookup, nid))

\* the keys m_nodeLookup[...] is asked for while the lines are resolved
TouchLookup(m, ids) ==
  IF m.nodeOrderingLogical THEN m.nodeLookup ELSE LookupInsert(m.nodeLookup, ids)

\* Mesh::readAdcircElements
ReadAdcircElements(m, f) ==
  LET ne == m.numElements
      g == GoodPrefix(f.elems, ne, BadElemLine)
      sized == Resize(m.elements, ne, DefaultElement)
      set(i) == Len(f.elems[i].n) \in {3, 4}
      elements == [i \in 1..ne |->
                     IF i <= g /\ set(i)
                     THEN [id |-> f.elems[i].id,
                           n |-> [j \in 1..Len(f.elems[i].n) |->
                                    ResolveNode(m, f.elems[i].n[j])]]
                     ELSE sized[i]]
      touched == UNION {Range(f.elems[i].n) : i \in {k \in 1..g : set(k)}}
      logical == IF m.nodeOrderingLogical THEN m.elementOrderingLogical
                 ELSE m.elementOrderingLogical /\ \A i \in 1..g : f.elems[i].id = i
      m1 == [m EXCEPT !.elements = elements, !.elementOrderingLogical = logical,
               !.nodeLookup = TouchLookup(m, touched)]
  IN IF g < ne THEN [m1 EXCEPT !.err = TRUE]
     ELSE [m1 EXCEPT !.elementLookup =
             IF logical THEN m.elementLookup
             ELSE FillLookup(m.elementLookup, elements, m.numElements)]

\* the part shared by readAdcircOpenBoundaries and readAdcircLandBoundaries:
\* the boundaries of one section, read until the first malformed line
HasNode2(code) == code \in {4, 24, 5, 25}

BoundaryFails(fb) == ~fb.ok \/ \E j \in 1..Len(fb.lines) : ~fb.lines[j].ok

ReadBoundary(m, fb) ==
  LET len == Len(fb.lines)
      g == GoodPrefix(fb.lines, len, BadBndLine)
  IN IF ~fb.ok THEN DefaultBoundary
     ELSE [code |-> fb.code, length |-> len,
           node1 |-> [j \in 1..len |->
                        IF j <= g THEN ResolveNode(m, fb.lines[j].n1) ELSE NullPtr],
           node2 |-> IF HasNode2(fb.code)
                     THEN [j \in 1..len |->
                        IF j <= g THEN ResolveNode(m, fb.lines[j].n2) ELSE NullPtr]
                     ELSE << >>]

BoundaryTouches(fb) ==
  LET len == Len(fb.lines)
      g == GoodPrefix(fb.lines, len, BadBndLine)
  IN IF ~fb.ok THEN {}
     ELSE {fb.lines[j].n1 : j \in 1..g}
          \cup (IF HasNode2(fb.code) THEN {fb.lines[j].n2 : j \in 1..g} ELSE {})

ReadBoundaries(m, fbs) ==
  LET nb == Len(fbs)
      fails == {b \in 1..nb : BoundaryFails(fbs[b])}
      first == IF fails = {} THEN nb + 1
               ELSE CHOOSE b \in fails : \A c \in fails : b <= c
  IN [bs |-> [b \in 1..nb |->
                IF b <= first THEN ReadBoundary(m, fbs[b]) ELSE DefaultBoundary],
      lookup |-> TouchLookup(m,
                   UNION {BoundaryTouches(fbs[b]) : b \in 1..Min(first, nb)}),
      failed |-> fails # {}]

\* Mesh::readAdcircOpenBoundaries
ReadAdcircOpenBoundaries(m, f) ==
  LET r == ReadBoundaries(m, f.obs)
  IN [m EXCEPT !.numOpenBoundaries = Len(f.obs), !.openBoundaries = r.bs,
        !.nodeLookup = r.lookup, !.err = r.failed]

\* Mesh::readAdcircLandBoundaries
ReadAdcircLandBoundaries(m, f) ==
  LET r == ReadBoundaries(m, f.lbs)
  IN [m EXCEPT !.numLandBoundaries = Len(f.lbs), !.landBoundaries = r.bs,
        !.nodeLookup = r.lookup, !.err = r.failed]

\* an exception thrown by one stage skips the stages after it
Then(m, Stage(_, _), f) == IF m.err THEN m ELSE Stage(m, f)

\* Mesh::readAdcircMesh
ReadAdcircMesh(m, f) ==
  Then(Then(Then(Then(ReadAdcircMeshHeader(m, f),
    ReadAdcircNodes, f), ReadAdcircElements, f),
    ReadAdcircOpenBoundaries, f), ReadAdcircLandBoundaries, f)

\* ------------------------------------------------------------ pointer reads
\* a Node* can be dereferenced when it points into the live part of the current
\* buffer of m_nodes
ValidPtr(m, p) == p.gen = m.nodesGen /\ p.k >= 0 /\ p.k < Len(m.nodes)

Deref(m, p) == m.nodes[p.k + 1]

ElementValid(m, e) == Len(e.n) \in {3, 4} /\ \A j \in 1..Len(e.n) : ValidPtr(m, e.n[j])

\* ------------------------------------------------- Element: vertex ordering
\* The angle class of a direction, in the order atan2 ranks directions from
\* -pi to pi: below the axis, along +x (and the null direction), above, along -x
AngleClass(dx, dy) ==
  IF dy < 0 THEN 0
  ELSE IF dy = 0 /\ dx >= 0 THEN 1
  ELSE IF dy > 0 THEN 2
  ELSE 3

\* atan2(ay, ax) < atan2(by, bx)
AngleLess(ax, ay, bx, by) ==
  \/ AngleClass(ax, ay) < AngleClass(bx, by)
  \/ /\ AngleClass(ax, ay) = AngleClass(bx, by)
     /\ ax * by - ay * bx > 0

\* an ordering by angle that puts vertices at the same angle in the reverse
\* of their order
SortTiesReversed(m, e) ==
  LET nv == Len(e.n)
      sx == IF nv = 3 THEN Deref(m, e.n[1]).x + Deref(m, e.n[2]).x + Deref(m, e.n[3]).x
            ELSE Deref(m, e.n[1]).x + Deref(m, e.n[2]).x + Deref(m, e.n[3]).x
                 + Deref(m, e.n[4]).x
      sy == IF nv = 3 THEN Deref(m, e.n[1]).y + Deref(m, e.n[2]).y + Deref(m, e.n[3]).y
            ELSE Deref(m, e.n[1]).y + Deref(m, e.n[2]).y + Deref(m, e.n[3]).y
                 + Deref(m, e.n[4]).y
      dx(j) == nv * Deref(m, e.n[j]).x - sx
      dy(j) == nv * Deref(m, e.n[j]).y - sy
      before(i, j) == \/ AngleLess(dx(i), dy(i), dx(j), dy(j))
                      \/ /\ ~AngleLess(dx(j), dy(j), dx(i), dy(i))
                         /\ i > j
      rank(j) == 1 + Cardinality({i \in 1..nv : i # j /\ before(i, j)})
  IN [e EXCEPT !.n = [r \in 1..nv |-> e.n[CHOOSE j \in 1..nv : rank(j) = r]]]

\* Element::sortVerticiesAboutCenter: the vertices ordered by the angle they
\* make with the centroid; vertices at the same angle keep their order.
\* Directions are scaled by the vertex count so that they stay integers.
SortVerticiesAboutCenter(m, e) ==
  LET nv == Len(e.n)
      sx == IF nv = 3 THEN Deref(m, e.n[1]).x + Deref(m, e.n[2]).x + Deref(m, e.n[3]).x
            ELSE Deref(m, e.n[1]).x + Deref(m, e.n[2]).x + Deref(m, e.n[3]).x
                 + Deref(m, e.n[4]).x
      sy == IF nv = 3 THEN Deref(m, e.n[1]).y + Deref(m, e.n[2]).y + Deref(m, e.n[3]).y
            ELSE Deref(m, e.n[1]).y + Deref(m, e.n[2]).y + Deref(m, e.n[3]).y
                 + Deref(m, e.n[4]).y
      dx(j) == nv * Deref(m, e.n[j]).x - sx
      dy(j) == nv * Deref(m, e.n[j]).y - sy
      before(i, j) == \/ AngleLess(dx(i), dy(i), dx(j), dy(j))
                      \/ /\ ~AngleLess(dx(j), dy(j), dx(i), dy(i))
                         /\ i < j
      rank(j) == 1 + Cardinality({i \in 1..nv : i # j /\ before(i, j)})
  IN [e EXCEPT !.n = [r \in 1..nv |-> e.n[CHOOSE j \in 1..nv : rank(j) = r]]]

\* every order of the vertices of e
VertexOrders(e) ==
  {[e EXCEPT !.n = [r \in 1..Len(e.n) |-> e.n[p[r]]]] :
     p \in {q \in [1..Len(e.n) -> 1..Len(e.n)] : \A i \in 1..Len(e.n) : \E r \in 1..Len(e.n) : q[r] = i}}

\* ----------------------------------------------------------- generic ASCII
\* Mesh::read2dmNodes: the identifier of each ND card is stored as read; the
\* ordering flag is not looked at
Read2dmNodes(m, f) ==
  [m EXCEPT !.numNodes = Len(f.nodes),
     !.nodes = m.nodes \o [i \in 1..Len(f.nodes) |->
                  [id |-> f.nodes[i].id, x |-> f.nodes[i].x,
                   y |-> f.nodes[i].y, z |-> f.nodes[i].z]]]

\* Mesh::read2dmElements: a card with 3 or 4 node numbers (and its material)
\* is stored, any other card throws
Read2dmElements(m, f) ==
  LET cards == [i \in 1..Len(f.elems) |->
                  [ok |-> f.elems[i].ok /\ Len(f.elems[i].n) \in {3, 4}]]
      g == GoodPrefix(cards, Len(cards), [ok |-> FALSE])
  IN [m EXCEPT !.numElements = Len(f.elems),
        !.elements = m.elements \o [i \in 1..g |->
                       [id |-> f.elems[i].id,
                        n |-> [j \in 1..Len(f.elems[i].n) |->
                                 Ptr(m.nodesGen, f.elems[i].n[j] - 1)]]],
        !.err = g < Len(cards)]

\* the end of Mesh::read2dmMesh
Drop2dmBoundaries(m, f) ==
  [m EXCEPT !.numOpenBoundaries = 0, !.numLandBoundaries = 0,
     !.totalOpenBoundaryNodes = 0, !.totalLandBoundaryNodes = 0]

\* Mesh::read2dmMesh
Read2dmMesh(m, f) ==
  Then(Then(Read2dmNodes(m, f), Read2dmElements, f), Drop2dmBoundaries, f)

\* ------------------------------------------------------------ DFlow netCDF
NC_FILL_INT == -2147483647

\* the rows of NetElemNode: the number of fill entries of a row
FillCount(row) == Cardinality({j \in 1..Len(row) : row[j] = NC_FILL_INT})

\* Mesh::readDflowMesh up to the arrays: f.nc names the netCDF call that fails
ReadDflowHeader(m, f) ==
  IF f.nc \in {"open", "dimlen"} THEN [m EXCEPT !.err = TRUE]
  ELSE LET m1 == [m EXCEPT !.numNodes = Len(f.nodes), !.numElements = Len(f.elems)]
       IN IF f.nmaxnode < 3 \/ f.nmaxnode > 4 \/ f.nc \in {"varid", "fill", "arrays"}
          THEN [m1 EXCEPT !.err = TRUE]
          ELSE m1

\* the node loop: identifiers are the positions
ReadDflowNodes(m, f) ==
  [m EXCEPT !.nodes = [i \in 1..m.numNodes |->
      [id |-> i, x |-> f.nodes[i].x, y |-> f.nodes[i].y, z |-> f.nodes[i].z]]]

\* the element loop, without the ordering of the vertices: the elements before
\* the first row that has not 3 or 4 nodes are set
ReadDflowElements(m, f) ==
  LET rows == [i \in 1..m.numElements |->
                 [ok |-> (f.nmaxnode - FillCount(f.elems[i].n)) \in {3, 4}]]
      g == GoodPrefix(rows, Len(rows), [ok |-> FALSE])
      nnodeelem(i) == f.nmaxnode - FillCount(f.elems[i].n)
      sized == IF g = 0 THEN m.elements
               ELSE Resize(m.elements, m.numElements, DefaultElement)
  IN [m EXCEPT !.elements = [i \in 1..Len(sized) |->
        IF i <= g
        THEN [id |-> i, n |-> [j \in 1..nnodeelem(i) |->
                                 Ptr(m.nodesGen, f.elems[i].n[j] - 1)]]
        ELSE sized[i]],
        !.err = g < Len(rows)]

\* the rows whose vertices the loop orders: those it has set
DflowSorted(m, f) == {i \in 1..Len(m.elements) : Len(m.elements[i].n) \in {3, 4}}

\* Mesh::readDflowMesh: the meshes the read can end with.  Ordering the
\* vertices of an element reads its nodes: through a pointer outside m_nodes
\* the coordinates are arbitrary, and so is the order.
ReadDflowMesh(m, f) ==
  LET m1 == Then(Then(ReadDflowHeader(m, f), ReadDflowNodes, f), ReadDflowElements, f)
      orders(i) == IF i \notin DflowSorted(m1, f) THEN {m1.elements[i]}
                   ELSE IF ElementValid(m1, m1.elements[i])
                   THEN {SortVerticiesAboutCenter(m1, m1.elements[i])}
                   ELSE VertexOrders(m1.elements[i])
  IN {[m1 EXCEPT !.elements = es] :
        es \in {q \in [1..Len(m1.elements) -> UNION {orders(i) : i \in 1..Len(m1.elements)}] :
                  \A i \in 1..Len(m1.elements) : q[i] \in orders(i)}}

\* whether the read dereferences a dangling or out-of-range Node*
ReadDflowUB(m, f) ==
  LET m1 == Then(Then(ReadDflowHeader(m, f), ReadDflowNodes, f), ReadDflowElements, f)
  IN \E i \in DflowSorted(m1, f) : ~ElementValid(m1, m1.elements[i])

\* ------------------------------------------------------------- Mesh::read
\* Mesh::read after the format has been settled: the meshes it can end with
\* (err set when it throws).  A file that does not exist throws before _init.
ReadOutcomes(m, f) ==
  IF ~f.exists THEN {[m EXCEPT !.err = TRUE]}
  ELSE CASE f.fmt = "ADCIRC" -> {ReadAdcircMesh(MeshInit(m), f)}
         [] f.fmt = "2DM" -> {Read2dmMesh(MeshInit(m), f)}
         [] f.fmt = "DFLOW" -> ReadDflowMesh(MeshInit(m), f)
         [] OTHER -> {[MeshInit(m) EXCEPT !.err = TRUE]}

ReadUB(m, f) == f.exists /\ f.fmt = "DFLOW" /\ ReadDflowUB(MeshInit(m), f)

\* Mesh::readDflowMesh: what the read has acquired and not released when it
\* returns or throws.  f.nc = "open" stands for a failing nc_open or
\* nc_inq_dimid.
ReadDflowHeld(f) ==
  LET handle == {"ncid"}
      coords == {"xcoor", "ycoor", "zcoor"}
      arrays == coords \cup {"elem"}
  IN IF f.nc \in {"open", "dimlen"} THEN handle \ {"ncid"}
     ELSE IF f.nmaxnode < 3 \/ f.nmaxnode > 4 THEN handle
     ELSE IF f.nc \in {"varid", "fill"} THEN handle
     ELSE IF f.nc = "arrays" THEN ((handle \cup arrays) \ {"ncid"}) \ arrays
     ELSE (((handle \cup arrays) \ {"ncid"}) \ coords) \ {"elem"}

\* the std::fstream of readAdcircMesh and of read2dmData is a local object
ReadHeld(f) ==
  IF f.exists /\ f.fmt = "DFLOW" THEN ReadDflowHeld(f) ELSE {}

\* which reader Mesh::read ran on mesh m, what the read still holds, and the
\* boundaries and boundary nodes m counted when the read began
ReadTrace(m, f) ==
  [reader |-> IF f.exists /\ f.fmt \in {"ADCIRC", "2DM", "DFLOW"} THEN f.fmt ELSE "none",
   held |-> ReadHeld(f),
   boundariesBefore |-> Len(m.openBoundaries) + Len(m.landBoundaries),
   totalBefore |-> m.totalOpenBoundaryNodes + m.totalLandBoundaryNodes]

\* ------------------------------------------------------ the files of the model
\* the position a node identifier has in the files of the model
CoordX(id) == 4 * ((id - 1) % 2)

CoordY(id) == 4 * (((id - 1) \div 2) % 2)

CanonNode(id) == NodeLine(id, CoordX(id), CoordY(id), 0)

File(fmt, hdr, nodes, elems, obs, lbs, nc, nmaxnode) ==
  [exists |-> TRUE, fmt |-> fmt, hdr |-> hdr, nn |-> Len(nodes), ne |-> Len(elems),
   nodes |-> nodes, elems |-> elems, obs |-> obs, lbs |-> lbs,
   nc |-> nc, nmaxnode |-> nmaxnode]

NoFile ==
  [exists |-> FALSE, fmt |-> "UNKNOWN", hdr |-> "ok", nn |-> 0, ne |-> 0,
   nodes |-> << >>, elems |-> << >>, obs |-> << >>, lbs |-> << >>,
   nc |-> "ok", nmaxnode |-> 3]

NodeIdSeqs == {s \in SeqsUpTo(1..MaxId, MaxNodes) : IsInjective(s)}

GoodNodes(s) == [i \in 1..Len(s) |-> CanonNode(s[i])]

\* node sections: every line well formed, or the last one malformed
NodeSections ==
  {GoodNodes(s) : s \in NodeIdSeqs}
  \cup {Append(GoodNodes(s), BadNodeLine) : s \in {t \in NodeIdSeqs : Len(t) < MaxNodes}}

ElemIdSeqs == {s \in SeqsUpTo(1..MaxElems, MaxElems) : IsInjective(s)}

\* the triangle an element of the model's files names, by its identifier
ElemConn(id) == IF id % 2 = 1 THEN <<1, 2, 3>> ELSE <<2, 3, 1>>

GoodElems(s) == [i \in 1..Len(s) |-> ElemLine(s[i], ElemConn(s[i]))]

ElemSections ==
  {GoodElems(s) : s \in ElemIdSeqs}
  \cup {Append(GoodElems(s), BadElemLine) : s \in {t \in ElemIdSeqs : Len(t) < MaxElems}}

AllOk(lines) == \A i \in 1..Len(lines) : lines[i].ok

\* the open and the land boundaries of a file: none, one open boundary, one
\* of each (a plain land boundary, a weir with its second node), a boundary
\* with a malformed line
BoundarySections ==
  {<<<< >>, << >>>>,
   <<<<FileBoundary(-1, <<BndLine(1, 0)>>)>>, << >>>>,
   <<<<FileBoundary(-1, <<BndLine(1, 0)>>)>>, <<FileBoundary(0, <<BndLine(2, 0)>>)>>>>,
   <<<<FileBoundary(-1, <<BndLine(2, 0)>>)>>, <<FileBoundary(24, <<BndLine(1, 3)>>)>>>>,
   <<<<FileBoundary(-1, <<BndLine(2, 0), BadBndLine>>)>>, << >>>>}

\* native ASCII files: every node section with every element section and no
\* boundary, and every well-formed node section with one element and every
\* boundary section.  Nothing follows a malformed line: the read stops there.
AdcircFiles ==
  {File("ADCIRC", "ok", n, e, << >>, << >>, "ok", 3) :
     n \in {s \in NodeSections : AllOk(s)}, e \in ElemSections}
  \cup {File("ADCIRC", "ok", n, << >>, << >>, << >>, "ok", 3) :
     n \in {s \in NodeSections : ~AllOk(s)}}
  \cup {File("ADCIRC", "ok", n, GoodElems(<<1>>), b[1], b[2], "ok", 3) :
     n \in {s \in NodeSections : AllOk(s)}, b \in BoundarySections}

BadHeaderFiles ==
  {File("ADCIRC", h, GoodNodes(<<1>>), << >>, << >>, << >>, "ok", 3) :
     h \in {"bad_ne", "bad_nn"}}

\* a card of a 2dm file with 5 node numbers, which read2dmElements refuses
TwoDmFiles ==
  {File("2DM", "ok", n, e, << >>, << >>, "ok", 3) :
     n \in {s \in NodeSections : AllOk(s)},
     e \in {GoodElems(s) : s \in {t \in ElemIdSeqs : Len(t) \in {0, 1, MaxElems}}}
           \cup {<<ElemLine(1, <<1, 2, 3, 1, 2>>)>>}}

DflowRows ==
  {<<1, 2, 3>>, <<3, 2, 1, NC_FILL_INT>>, <<1, 2, NC_FILL_INT, NC_FILL_INT>>,
   <<1, 2, MaxNodes + 2>>}

DflowFiles ==
  {File("DFLOW", "ok", GoodNodes([i \in 1..k |-> i]), e, << >>, << >>, nc, nmax) :
     k \in {0, MaxNodes},
     e \in {<< >>} \cup {<<ElemLine(1, r)>> : r \in DflowRows}
           \cup {<<ElemLine(1, <<1, 2, 3>>), ElemLine(2, r)>> : r \in DflowRows},
     nc \in {"ok", "open", "dimlen", "varid", "fill", "arrays"},
     nmax \in {2, 3, 4}}

DflowCanonical(f) ==
  /\ f.nc # "ok" => f.elems = << >> /\ f.nmaxnode = 3
  /\ \A i \in 1..Len(f.elems) : Len(f.elems[i].n) = f.nmaxnode
  /\ f.elems # << >> => f.nodes # << >>

Files ==
  AdcircFiles \cup BadHeaderFiles \cup TwoDmFiles
  \cup {f \in DflowFiles : DflowCanonical(f)}
  \cup {NoFile, [NoFile EXCEPT !.exists = TRUE]}

\* ------------------------------------------------------------------ actions
\* OutputFile::OutputFile(filename); m_numSnaps is not set by the constructor
\* and holds whatever was in memory
OutputConstructed(filename, uninitialised) ==
  [filename |-> filename, open |-> FALSE, filetype |-> "Unknown",
   currentSnap |-> 0, numNodes |-> 0, isVector |-> FALSE, isMax |-> FALSE,
   numSnaps |-> uninitialised,
   records |-> << >>, recordMap |-> EmptyLookup,
   fid |-> [open |-> FALSE, pos |-> 0], ncid |-> FALSE,
   time |-> 0, varid_data |-> 0]

\* no OutputFile in use
NoOutputFile == OutputConstructed(<< >>, 0)

Init ==
  /\ m_nodes = Constructed.nodes
  /\ m_nodesGen = Constructed.nodesGen
  /\ m_elements = Constructed.elements
  /\ m_openBoundaries = Constructed.openBoundaries
  /\ m_landBoundaries = Constructed.landBoundaries
  /\ m_numNodes = Constructed.numNodes
  /\ m_numElements = Constructed.numElements
  /\ m_numOpenBoundaries = Constructed.numOpenBoundaries
  /\ m_numLandBoundaries = Constructed.numLandBoundaries
  /\ m_totalOpenBoundaryNodes = Constructed.totalOpenBoundaryNodes
  /\ m_totalLandBoundaryNodes = Constructed.totalLandBoundaryNodes
  /\ m_nodeOrderingLogical = Constructed.nodeOrderingLogical
  /\ m_elementOrderingLogical = Constructed.elementOrderingLogical
  /\ m_nodeLookup = Constructed.nodeLookup
  /\ m_elementLookup = Constructed.elementLookup
  /\ m_nodalSearchTree = Constructed.nodalSearchTree
  /\ m_elementalSearchTree = Constructed.elementalSearchTree
  /\ m_epsg = Constructed.epsg
  /\ pc = "running"
  /\ lastOp = "construct"
  /\ lastErr = FALSE
  /\ lastArg = 0
  /\ lastRes = 0
  /\ lastFile = NoFile
  /\ nreads = 0
  /\ nlookups = 0
  /\ nedits = 0
  /\ outputFile = NoOutputFile

\* what every operation of the Mesh records about itself; it leaves the
\* OutputFile alone
Did(op, err, arg, res) ==
  /\ lastOp' = op
  /\ lastErr' = err
  /\ lastArg' = arg
  /\ lastRes' = res
  /\ UNCHANGED outputFile

\* the process dies (a segmentation fault): nothing runs after it
Crash(op, arg) ==
  /\ pc' = "crashed"
  /\ Did(op, TRUE, arg, -1)
  /\ UNCHANGED <<meshVars, treeVars, lastFile, nreads, nlookups, nedits>>

\* Mesh::read on file f, asked for as arg; the result recorded is the trace
\* of the read
ReadRequest(f, arg) ==
  /\ pc = "running"
  /\ nreads < MaxReads
  /\ \/ \E out \in ReadOutcomes(Mesh, f) :
          /\ Install(out)
          /\ Did("read", out.err, arg, ReadTrace(Mesh, f))
          /\ lastFile' = f
          /\ nreads' = nreads + 1
          /\ UNCHANGED <<pc, nlookups, nedits>>
     \/ /\ ReadUB(Mesh, f)
        /\ Crash("read", arg)

\* Mesh::read on file f
ReadFile(f) == ReadRequest(f, 0)

Read == \E f \in Files : ReadFile(f)

\* Mesh::nodeById and Mesh::elementById, on the ordering flag, the count and
\* the lookup of the record kind: whether it throws, the position of the
\* record it returns, and the lookup afterwards
ById(logical, num, lookup, id) ==
  IF logical
  THEN IF id > 0 /\ id <= num
       THEN [err |-> FALSE, k |-> id - 1, lookup |-> lookup]
       ELSE [err |-> TRUE, k |-> -1, lookup |-> lookup]
  ELSE [err |-> FALSE, k |-> LookupGet(lookup, id),
        lookup |-> LookupInsert(lookup, {id})]

NodeByIdOf(id) == ById(m_nodeOrderingLogical, m_numNodes, m_nodeLookup, id)

ElementByIdOf(id) ==
  ById(m_elementOrderingLogical, m_numElements, m_elementLookup, id)

\* Mesh::nodeById
NodeById ==
  /\ pc = "running"
  /\ nlookups < MaxLookups
  /\ nlookups' = nlookups + 1
  /\ \E id \in 0..(MaxId + 1) :
       /\ Did("nodeById", NodeByIdOf(id).err, id, NodeByIdOf(id).k)
       /\ m_nodeLookup' = NodeByIdOf(id).lookup
  /\ UNCHANGED <<m_nodes, m_nodesGen, m_elements, m_openBoundaries, m_landBoundaries,
       m_numNodes, m_numElements, m_numOpenBoundaries, m_numLandBoundaries,
       m_totalOpenBoundaryNodes, m_totalLandBoundaryNodes,
       m_nodeOrderingLogical, m_elementOrderingLogical, m_elementLookup, m_epsg,
       treeVars, pc, lastFile, nreads, nedits>>

\* Mesh::elementById
ElementById ==
  /\ pc = "running"
  /\ nlookups < MaxLookups
  /\ nlookups' = nlookups + 1
  /\ \E id \in 0..(MaxElems + 1) :
       /\ Did("elementById", ElementByIdOf(id).err, id, ElementByIdOf(id).k)
       /\ m_elementLookup' = ElementByIdOf(id).lookup
  /\ UNCHANGED <<m_nodes, m_nodesGen, m_elements, m_openBoundaries, m_landBoundaries,
       m_numNodes, m_numElements, m_numOpenBoundaries, m_numLandBoundaries,
       m_totalOpenBoundaryNodes, m_totalLandBoundaryNodes,
       m_nodeOrderingLogical, m_elementOrderingLogical, m_nodeLookup, m_epsg,
       treeVars, pc, lastFile, nreads, nedits>>

Next == Read \/ NodeById \/ ElementById

Spec == Init /\ [][Next]_vars

\* ============================================================ spatial index
\* QKdtree2 is the point set it was built from: build copies the coordinates.
\* The points of the elemental tree are centroids, kept as 12 times their
\* value (12 / 3 and 12 / 4 are integers); the nodal tree keeps 12 times the
\* node positions as well, so that one distance serves both.
Scale == 12

Pt(x, y) == <<x, y>>

Dist2(p, q) == (p[1] - q[1]) * (p[1] - q[1]) + (p[2] - q[2]) * (p[2] - q[2])

\* the locations the queries of the model ask about
Locs == <<Pt(1, 1), Pt(3, 3), Pt(5, 1)>>

Scaled(loc) == Pt(Scale * loc[1], Scale * loc[2])

Sum(f, n) == IF n = 0 THEN 0 ELSE IF n = 1 THEN f[1] ELSE IF n = 2 THEN f[1] + f[2]
             ELSE IF n = 3 THEN f[1] + f[2] + f[3] ELSE f[1] + f[2] + f[3] + f[4]

\* 12 times the mean of the positions of the nodes of e
Centroid(m, e) ==
  LET nv == Len(e.n)
  IN Pt((Scale \div nv) * Sum([j \in 1..nv |-> Deref(m, e.n[j]).x], nv),
        (Scale \div nv) * Sum([j \in 1..nv |-> Deref(m, e.n[j]).y], nv))

\* Mesh::buildNodalSearchTree: the tree over the positions of m_nodes
NodalPoints(m) ==
  [i \in 1..Len(m.nodes) |-> Pt(Scale * m.nodes[i].x, Scale * m.nodes[i].y)]

BuildNodalSearchTreeOf(m) ==
  [m EXCEPT !.nodalSearchTree = [null |-> FALSE, pts |-> NodalPoints(m)]]

\* Mesh::buildElementalSearchTree reads the nodes of every element through its
\* Node*: an element whose pointers do not all point into m_nodes makes that
\* read undefined, and its centroid any point (or the process dies)
BuildElementalUB(m) == \E i \in 1..Len(m.elements) : ~ElementValid(m, m.elements[i])

ElementalPoints(m) ==
  LET cs(i) == IF ElementValid(m, m.elements[i]) THEN {Centroid(m, m.elements[i])}
               ELSE {Scaled(Locs[l]) : l \in 1..Len(Locs)}
  IN {q \in [1..Len(m.elements) -> UNION {cs(i) : i \in 1..Len(m.elements)}] :
        \A i \in 1..Len(m.elements) : q[i] \in cs(i)}

BuildElementalSearchTreeOf(m) ==
  {[m EXCEPT !.elementalSearchTree = [null |-> FALSE, pts |-> pts]] :
     pts \in ElementalPoints(m)}

\* QKdtree2::findNearest: the positions of the points of the tree nearest loc
Nearest(tree, loc) ==
  {i \in 1..Len(tree.pts) :
     \A j \in 1..Len(tree.pts) :
       Dist2(tree.pts[i], Scaled(loc)) <= Dist2(tree.pts[j], Scaled(loc))}

\* QKdtree2::findXNearest: the positions (0-based) of the x nearest points,
\* nearest first, points at the same distance by position
XNearest(tree, loc, x) ==
  LET n == Len(tree.pts)
      d(i) == Dist2(tree.pts[i], Scaled(loc))
      before(i, j) == d(i) < d(j) \/ (d(i) = d(j) /\ i < j)
      rank(j) == 1 + Cardinality({i \in 1..n : before(i, j)})
  IN [r \in 1..Min(x, n) |-> (CHOOSE j \in 1..n : rank(j) = r) - 1]

\* Element::isInside: the location lies in the polygon of the vertices of e
\* taken in their stored order (its border included)
IsInside(m, e, loc) ==
  LET nv == Len(e.n)
      v(j) == Deref(m, e.n[((j - 1) % nv) + 1])
      side(j) == (v(j + 1).x - v(j).x) * (loc[2] - v(j).y)
                 - (v(j + 1).y - v(j).y) * (loc[1] - v(j).x)
  IN \/ \A j \in 1..nv : side(j) >= 0
     \/ \A j \in 1..nv : side(j) <= 0

\* the loop of Mesh::findElement from candidate r on: what it can end with.
\* Mesh::element throws for a position past the element count; a candidate
\* whose nodes lie outside m_nodes makes isInside read through a wild pointer
RECURSIVE FindElementFrom(_, _, _, _)
FindElementFrom(m, cands, loc, r) ==
  IF r > Len(cands) THEN {[kind |-> "return", res |-> -1]}
  ELSE IF cands[r] >= m.numElements THEN {[kind |-> "throw", res |-> -1]}
  ELSE IF cands[r] >= Len(m.elements) \/ ~ElementValid(m, m.elements[cands[r] + 1])
  THEN {[kind |-> "crash", res |-> -1], [kind |-> "return", res |-> cands[r]]}
       \cup FindElementFrom(m, cands, loc, r + 1)
  ELSE IF IsInside(m, m.elements[cands[r] + 1], loc)
  THEN {[kind |-> "return", res |-> cands[r]]}
  ELSE FindElementFrom(m, cands, loc, r + 1)

FindElementOf(m, tree, loc) ==
  FindElementFrom(m, XNearest(tree, loc, searchDepth), loc, 1)

\* ================================================================ link table
\* Element::elementLeg(j): vertex j and the vertex after it around the element
ElementLeg(e, j) == <<e.n[j], e.n[(j % Len(e.n)) + 1]>>

\* std::pair<Node *, Node *>::operator<, on pointers into one buffer
PairLess(p, q) == p[1].k < q[1].k \/ (p[1].k = q[1].k /\ p[2].k < q[2].k)

\* the elements of a std::set of pointer pairs, in its order
SetToVector(S) ==
  LET rank(p) == 1 + Cardinality({q \in S : PairLess(q, p)})
  IN [r \in 1..Cardinality(S) |-> CHOOSE p \in S : rank(p) = r]

\* a link table that keeps each leg in the direction the element gives it
LegsAsGiven(m) ==
  LET legs(e) == LET es == SortVerticiesAboutCenter(m, e)
                 IN {ElementLeg(es, j) : j \in 1..Len(es.n)}
  IN SetToVector(UNION {legs(m.elements[i]) : i \in 1..Len(m.elements)})

\* Mesh::generateLinkTable on a mesh whose elements all point into m_nodes
GenerateLinkTableOf(m) ==
  LET p2(p1) == IF Deref(m, p1[1]).id > Deref(m, p1[2]).id THEN <<p1[2], p1[1]>>
                ELSE p1
      legs(e) == LET es == SortVerticiesAboutCenter(m, e)
                 IN {p2(ElementLeg(es, j)) : j \in 1..Len(es.n)}
  IN SetToVector(UNION {legs(m.elements[i]) : i \in 1..Len(m.elements)})

\* ==================================================================== edits
\* the records a caller hands to addNode and addElement
EditNode == [id |-> MaxId + 1, x |-> 4, y |-> 4, z |-> 1]

EditElements(m) ==
  IF Len(m.nodes) >= 3
  THEN {[id |-> MaxElems + 1,
         n |-> <<Ptr(m.nodesGen, Len(m.nodes) - 3), Ptr(m.nodesGen, Len(m.nodes) - 2),
                 Ptr(m.nodesGen, Len(m.nodes) - 1)>>]}
  ELSE {}

\* std::vector::erase
Erase(s, index) == [i \in 1..(Len(s) - 1) |-> IF i <= index THEN s[i] ELSE s[i + 1]]

\* Mesh::addNode
AddNodeOf(m, index, node) ==
  IF index < m.numNodes THEN [m EXCEPT !.nodes[index + 1] = node]
  ELSE [m EXCEPT !.err = TRUE]

\* a deleteNode that also discarded the nodal tree, which Mesh::deleteNode
\* does not do
DeleteNodeDroppingTree(m, index) ==
  IF index < m.numNodes
  THEN [m EXCEPT !.nodes = Erase(m.nodes, index), !.numNodes = Len(m.nodes) - 1,
                 !.nodalSearchTree = NullTree]
  ELSE [m EXCEPT !.err = TRUE]

\* Mesh::deleteNode
DeleteNodeOf(m, index) ==
  IF index < m.numNodes
  THEN [m EXCEPT !.nodes = Erase(m.nodes, index), !.numNodes = Len(m.nodes) - 1]
  ELSE [m EXCEPT !.err = TRUE]

\* Mesh::addElement
AddElementOf(m, index, element) ==
  IF index < m.numElements THEN [m EXCEPT !.elements[index + 1] = element]
  ELSE [m EXCEPT !.err = TRUE]

\* Mesh::deleteElement
DeleteElementOf(m, index) ==
  IF index < m.numElements
  THEN [m EXCEPT !.elements = Erase(m.elements, index),
                 !.numElements = Len(m.elements) - 1]
  ELSE [m EXCEPT !.err = TRUE]

\* Mesh::resizeMesh.  Growing m_nodes may move its buffer (it does when the
\* capacity is exceeded), and every Node* taken before then dangles.
ResizeMeshOf(m, nn, ne, nob, nlb) ==
  LET sized == [m EXCEPT
        !.nodes = IF nn # m.numNodes THEN Resize(m.nodes, nn, DefaultNode) ELSE @,
        !.numNodes = nn,
        !.elements = IF ne # m.numElements THEN Resize(m.elements, ne, DefaultElement) ELSE @,
        !.numElements = ne,
        !.openBoundaries = IF nob # m.numOpenBoundaries
                           THEN Resize(m.openBoundaries, nob, DefaultBoundary) ELSE @,
        !.numOpenBoundaries = nob,
        !.landBoundaries = IF nlb # m.numLandBoundaries
                           THEN Resize(m.landBoundaries, nlb, DefaultBoundary) ELSE @,
        !.numLandBoundaries = nlb]
  IN IF nn # m.numNodes /\ nn > Len(m.nodes)
     THEN {sized, [sized EXCEPT !.nodesGen = m.nodesGen + 1]}
     ELSE {sized}

\* Mesh::setZ with a vector of numNodes values, all v
SetZOf(m, v) == [m EXCEPT !.nodes = [i \in 1..Len(m.nodes) |-> [m.nodes[i] EXCEPT !.z = v]]]

\* Projection::transform between the coordinate systems of the model: the
\* positions move by one unit of x per step of the system's number
EpsgCodes == <<4326, 26915>>

Transform(from, to, node) ==
  LET step(c) == IF c = EpsgCodes[1] THEN 0 ELSE 1
  IN [node EXCEPT !.x = node.x + step(to) - step(from)]

\* Mesh::reproject: the library fails (the mesh is left as it was) or not
ReprojectOf(m, epsg) ==
  {[m EXCEPT !.err = TRUE],
   [m EXCEPT !.nodes = [i \in 1..Len(m.nodes) |-> Transform(m.epsg, epsg, m.nodes[i])],
             !.epsg = epsg]}

\* ======================================================= the queried mesh
\* A square of nodes, its nodes in file order or rotated by one.  Its
\* elements: the two triangles the diagonal cuts it into (the first, or
\* both), or the square as one quadrilateral, its vertices listed around the
\* square or crossing it.
GeoNodeCount == MaxNodes + 1

GeoConn(id) == IF id % 2 = 1 THEN <<1, 2, 3>> ELSE <<2, 4, 3>>

GeoElemSections ==
  {[i \in 1..k |-> ElemLine(i, GeoConn(i))] : k \in 1..MaxElems}
  \cup {<<ElemLine(1, <<1, 2, 4, 3>>)>>, <<ElemLine(1, <<1, 2, 3, 4>>)>>}

GeoFiles ==
  {File("ADCIRC", "ok",
        GoodNodes([i \in 1..GeoNodeCount |-> ((i - 1 + r) % GeoNodeCount) + 1]),
        e, << >>, << >>, "ok", 3) :
     r \in {0, 1}, e \in GeoElemSections}

ReadGeo == \E f \in GeoFiles : ReadFile(f)

\* QKdtree2::isInitialized() called through the unique_ptr.  With no tree the
\* pointer is null and the call undefined: the process dies, or the call
\* returns either answer.
Initialized(tree) == IF tree.null THEN {"crash", "true", "false"} ELSE {"true"}

QueryFrame == UNCHANGED <<pc, lastFile, nreads, nlookups, nedits>>

\* Mesh::buildNodalSearchTree
BuildNodalSearchTree ==
  /\ pc = "running"
  /\ Install(BuildNodalSearchTreeOf(Mesh))
  /\ Did("buildNodalSearchTree", FALSE, 0, 0)
  /\ QueryFrame

\* Mesh::buildElementalSearchTree
BuildElementalSearchTree ==
  /\ pc = "running"
  /\ \/ \E out \in BuildElementalSearchTreeOf(Mesh) :
          /\ Install(out)
          /\ Did("buildElementalSearchTree", FALSE, 0, 0)
          /\ QueryFrame
     \/ /\ BuildElementalUB(Mesh)
        /\ Crash("buildElementalSearchTree", 0)

\* Mesh::deleteNodalSearchTree
DeleteNodalSearchTree ==
  /\ pc = "running"
  /\ \E i \in Initialized(m_nodalSearchTree) :
       IF i = "crash" THEN Crash("deleteNodalSearchTree", 0)
       ELSE /\ Install([Mesh EXCEPT !.nodalSearchTree = IF i = "true" THEN NullTree ELSE @])
            /\ Did("deleteNodalSearchTree", FALSE, 0, 0)
            /\ QueryFrame

\* Mesh::deleteElementalSearchTree
DeleteElementalSearchTree ==
  /\ pc = "running"
  /\ \E i \in Initialized(m_elementalSearchTree) :
       IF i = "crash" THEN Crash("deleteElementalSearchTree", 0)
       ELSE /\ Install([Mesh EXCEPT !.elementalSearchTree = IF i = "true" THEN NullTree ELSE @])
            /\ Did("deleteElementalSearchTree", FALSE, 0, 0)
            /\ QueryFrame

\* the nearest-one query on the tree a mesh holds: a null tree cannot be
\* asked (the process dies), a tree with no point has no nearest one
AskNearest(op, m, tree, l) ==
  IF tree.null THEN Crash(op, l)
  ELSE /\ Install(m)
       /\ QueryFrame
       /\ IF Nearest(tree, Locs[l]) = {} THEN Did(op, TRUE, l, -1)
          ELSE \E r \in Nearest(tree, Locs[l]) : Did(op, FALSE, l, r - 1)

\* Mesh::findNearestNode
FindNearestNode ==
  /\ pc = "running"
  /\ \E l \in 1..Len(Locs), i \in Initialized(m_nodalSearchTree) :
       IF i = "crash" THEN Crash("findNearestNode", l)
       ELSE LET m == IF i = "false" THEN BuildNodalSearchTreeOf(Mesh) ELSE Mesh
            IN AskNearest("findNearestNode", m, m.nodalSearchTree, l)

\* the mesh after the elemental tree has been asked for: built when
\* elementalSearchTreeInitialized() said it was not there
WithElementalTree(i) ==
  IF i = "false" THEN BuildElementalSearchTreeOf(Mesh) ELSE {Mesh}

\* Mesh::findNearestElement
FindNearestElement ==
  /\ pc = "running"
  /\ \E l \in 1..Len(Locs), i \in Initialized(m_elementalSearchTree) :
       \/ /\ i = "crash" \/ (i = "false" /\ BuildElementalUB(Mesh))
          /\ Crash("findNearestElement", l)
       \/ /\ i # "crash"
          /\ \E m \in WithElementalTree(i) :
               AskNearest("findNearestElement", m, m.elementalSearchTree, l)

\* Mesh::findElement
FindElement ==
  /\ pc = "running"
  /\ \E l \in 1..Len(Locs), i \in Initialized(m_elementalSearchTree) :
       \/ /\ i = "crash" \/ (i = "false" /\ BuildElementalUB(Mesh))
          /\ Crash("findElement", l)
       \/ /\ i # "crash"
          /\ \E m \in WithElementalTree(i) :
               IF m.elementalSearchTree.null THEN Crash("findElement", l)
               ELSE \E out \in FindElementOf(m, m.elementalSearchTree, Locs[l]) :
                      IF out.kind = "crash" THEN Crash("findElement", l)
                      ELSE /\ Install(m)
                           /\ Did("findElement", out.kind = "throw", l, out.res)
                           /\ QueryFrame

\* Mesh::generateLinkTable.  An element whose pointers do not all point into
\* m_nodes is read through them all the same: the process dies, or the reads
\* go unnoticed and the legs of the other elements are returned.
GenerateLinkTable ==
  /\ pc = "running"
  /\ LET valid == {i \in 1..Len(m_elements) : ElementValid(Mesh, m_elements[i])}
         kept == [Mesh EXCEPT !.elements =
                    [r \in 1..Cardinality(valid) |->
                       m_elements[CHOOSE i \in valid :
                                    Cardinality({j \in valid : j < i}) = r - 1]]]
     IN \/ /\ Cardinality(valid) < Len(m_elements)
           /\ Crash("generateLinkTable", 0)
        \/ /\ Did("generateLinkTable", FALSE, 0, GenerateLinkTableOf(kept))
           /\ UNCHANGED <<meshVars, treeVars>>
           /\ QueryFrame

\* ------------------------------------------------------------ edit actions
\* an edit that ended in mesh m (err set when it threw)
Edited(op, m, arg) ==
  /\ Install(m)
  /\ Did(op, m.err, arg, 0)
  /\ nedits' = nedits + 1
  /\ UNCHANGED <<pc, lastFile, nreads, nlookups>>

CanEdit == pc = "running" /\ nedits < MaxEdits

\* Mesh::addNode
AddNode ==
  /\ CanEdit
  /\ \E index \in 0..(MaxNodes + 1) :
       Edited("addNode", AddNodeOf(Mesh, index, EditNode), index)

\* Mesh::deleteNode
DeleteNode ==
  /\ CanEdit
  /\ \E index \in 0..(MaxNodes + 1) :
       Edited("deleteNode", DeleteNodeOf(Mesh, index), index)

\* Mesh::addElement
AddElement ==
  /\ CanEdit
  /\ \E index \in 0..MaxElems, e \in EditElements(Mesh) :
       Edited("addElement", AddElementOf(Mesh, index, e), index)

\* Mesh::deleteElement
DeleteElement ==
  /\ CanEdit
  /\ \E index \in 0..MaxElems :
       Edited("deleteElement", DeleteElementOf(Mesh, index), index)

\* the sizes resizeMesh is called with: one record kind grown or shrunk by
\* one, everything emptied, everything grown
ResizeArgs ==
  LET nn == m_numNodes
      ne == m_numElements
      nob == m_numOpenBoundaries
      nlb == m_numLandBoundaries
  IN {a \in {<<nn + 1, ne, nob, nlb>>, <<nn - 1, ne, nob, nlb>>,
             <<nn, ne + 1, nob, nlb>>, <<nn, ne - 1, nob, nlb>>,
             <<nn, ne, nob + 1, nlb>>, <<nn, ne, nob, nlb + 1>>,
             <<0, 0, 0, 0>>, <<nn + 1, ne + 1, nob + 1, nlb + 1>>} :
        /\ \A j \in 1..4 : a[j] >= 0
        /\ a[1] <= MaxNodes + 2 /\ a[2] <= MaxElems + 1 /\ a[3] <= 1 /\ a[4] <= 1}

\* Mesh::resizeMesh
ResizeMesh ==
  /\ CanEdit
  /\ \E a \in ResizeArgs :
       \E m \in ResizeMeshOf(Mesh, a[1], a[2], a[3], a[4]) :
         /\ m.nodesGen <= MaxGen
         /\ Edited("resizeMesh", m, a[1])

\* Mesh::setZ
SetZ ==
  /\ CanEdit
  /\ \E v \in {0, 1} : Edited("setZ", SetZOf(Mesh, v), v)

\* Mesh::reproject
Reproject ==
  /\ CanEdit
  /\ \E c \in 1..Len(EpsgCodes) :
       \E m \in ReprojectOf(Mesh, EpsgCodes[c]) : Edited("reproject", m, c)

EditMesh ==
  \/ AddNode \/ DeleteNode \/ AddElement \/ DeleteElement
  \/ ResizeMesh \/ SetZ \/ Reproject

NextQuery ==
  \/ ReadGeo
  \/ BuildNodalSearchTree \/ BuildElementalSearchTree
  \/ DeleteNodalSearchTree \/ DeleteElementalSearchTree
  \/ FindNearestNode \/ FindNearestElement \/ FindElement
  \/ GenerateLinkTable
  \/ AddNode \/ DeleteNode \/ AddElement \/ DeleteElement
  \/ ResizeMesh \/ SetZ \/ Reproject

SpecQuery == Init /\ [][NextQuery]_vars

\* ======================================================== reading and writing
\* A file name is the sequence of its characters.
Ext14 == <<".", "1", "4">>

ExtGrd == <<".", "g", "r", "d">>

Ext2dm == <<".", "2", "d", "m">>

NetNc == <<"_", "n", "e", "t", ".", "n", "c">>

\* IO::getFileExtension: the name from its last dot on, nothing without a dot
GetFileExtension(filename) ==
  LET dots == {i \in 1..Len(filename) : filename[i] = "."}
  IN IF dots = {} THEN << >>
     ELSE SubSeq(filename, CHOOSE i \in dots : \A j \in dots : j <= i, Len(filename))

\* std::string::find(pattern) != npos
Contains(str, pattern) ==
  \E i \in 1..(Len(str) - Len(pattern) + 1) :
    SubSeq(str, i, i + Len(pattern) - 1) = pattern

\* a format selection that falls back on the native format
GuessMeshFormat(filename) ==
  IF GetFileExtension(filename) = Ext2dm THEN "2DM"
  ELSE IF Contains(filename, NetNc) THEN "DFLOW"
  ELSE "ADCIRC"

\* Mesh::getMeshFormat
GetMeshFormat(filename) ==
  LET extension == GetFileExtension(filename)
  IN IF extension = Ext14 \/ extension = ExtGrd THEN "ADCIRC"
     ELSE IF extension = Ext2dm THEN "2DM"
     ELSE IF Contains(filename, NetNc) THEN "DFLOW"
     ELSE "UNKNOWN"

\* the head of Mesh::read and of Mesh::write: the format to go by
SelectFormat(filename, format) ==
  IF format = "UNKNOWN" THEN GetMeshFormat(filename) ELSE format

FileNames ==
  {<<"a">> \o Ext14, <<"a">> \o ExtGrd, <<"a">> \o Ext2dm, <<"a">> \o NetNc,
   <<"a">> \o NetNc \o Ext14, <<"a">> \o NetNc \o <<".", "o", "l", "d">>,
   <<"a">> \o Ext14 \o <<".", "t", "x", "t">>, <<"a", ".", "n", "c">>,
   <<"a", "1", "4">>, <<"a", ".", "G", "R", "D">>}

\* what read and write are asked: a name with no format, or with one
Requests ==
  {[name |-> n, format |-> "UNKNOWN"] : n \in FileNames}
  \cup {[name |-> n, format |-> x] :
          n \in {<<"a", ".", "t", "x", "t">>, <<"a">> \o Ext14},
          x \in {"ADCIRC", "2DM", "DFLOW"}}

\* a triangle and a quadrilateral, both counterclockwise
MixedElems == <<ElemLine(1, <<1, 2, 3>>), ElemLine(2, <<1, 2, 4, 3>>)>>

\* the files behind the names: native ones with node identifiers in order,
\* out of order, with a gap and one short; elements with 3, 2 and 5 nodes;
\* every boundary section; a 2dm file; netCDF files; a file of no format
IoFiles ==
  {File("ADCIRC", "ok", GoodNodes(n), e, << >>, << >>, "ok", 3) :
     n \in {<<1, 2, 3>>, <<3, 1, 2>>, <<1, 3>>, <<1, 2>>},
     e \in {GoodElems(<<1>>), GoodElems(<<1, 2>>), GoodElems(<<2, 1>>),
            <<ElemLine(1, <<1, 2>>)>>, <<ElemLine(1, <<1, 2, 3, 1, 2>>)>>}}
  \cup {File("ADCIRC", "ok", GoodNodes(<<1, 2, 3>>), GoodElems(<<1>>), b[1], b[2], "ok", 3) :
     b \in BoundarySections}
  \cup {File("ADCIRC", "ok", GoodNodes(n), MixedElems, << >>, << >>, "ok", 3) :
     n \in {<<1, 2, 3, 4>>, <<4, 1, 2, 3>>}}
  \cup {File("2DM", "ok", GoodNodes(<<1, 2, 3>>), GoodElems(<<1>>), << >>, << >>, "ok", 3)}
  \cup {File("DFLOW", "ok", GoodNodes(<<1, 2, 3>>), <<ElemLine(1, <<1, 2, 3>>)>>,
             << >>, << >>, "ok", 3),
        File("DFLOW", "ok", GoodNodes(<<1, 2, 3>>), <<ElemLine(1, <<1, 2, 3>>)>>,
             << >>, << >>, "varid", 3)}
  \cup {NoFile, [NoFile EXCEPT !.exists = TRUE]}

\* Mesh::read of a name: the file of that name holds what the reader that is
\* selected reads
ReadNamed ==
  \E r \in Requests, f \in IoFiles :
    /\ f.exists => f.fmt = SelectFormat(r.name, r.format)
    /\ ReadRequest(f, r)

\* Mesh::totalOpenBoundaryNodes and Mesh::totalLandBoundaryNodes
RECURSIVE TotalBoundaryNodes(_)
TotalBoundaryNodes(bs) ==
  IF bs = << >> THEN 0 ELSE Head(bs).length + TotalBoundaryNodes(Tail(bs))

\* every Node* the elements and the boundaries hold
PtrsOf(m) ==
  UNION {Range(m.elements[i].n) : i \in 1..Len(m.elements)}
  \cup UNION {Range(b.node1) \cup Range(b.node2) :
                b \in Range(m.openBoundaries) \cup Range(m.landBoundaries)}

\* the identifiers the writers can read through the pointers: that of the
\* node for a pointer into m_nodes, anything for another
Readings(m) ==
  LET wild == {p \in PtrsOf(m) : ~ValidPtr(m, p)}
  IN {[p \in PtrsOf(m) |-> IF ValidPtr(m, p) THEN Deref(m, p).id ELSE h[p]] :
        h \in [wild -> {0, MaxId + 1}]}

WildPtrs(m) == \E p \in PtrsOf(m) : ~ValidPtr(m, p)

\* Node::toAdcircString and Node::to2dmString
NodeLines(m) ==
  [i \in 1..Len(m.nodes) |->
     NodeLine(m.nodes[i].id, m.nodes[i].x, m.nodes[i].y, m.nodes[i].z)]

\* Element::toAdcircString and Element::to2dmString
ElemLines(m, g) ==
  [i \in 1..Len(m.elements) |->
     ElemLine(m.elements[i].id,
              [j \in 1..Len(m.elements[i].n) |-> g[m.elements[i].n[j]]])]

\* Boundary::toStringList
BoundaryLines(bs, g) ==
  [k \in 1..Len(bs) |->
     FileBoundary(bs[k].code,
       [j \in 1..bs[k].length |->
          BndLine(g[bs[k].node1[j]],
                  IF HasNode2(bs[k].code) THEN g[bs[k].node2[j]] ELSE 0)])]

\* the two getters the writer calls store the sums they return
Totalled(m) ==
  [m EXCEPT !.totalOpenBoundaryNodes = TotalBoundaryNodes(m.openBoundaries),
            !.totalLandBoundaryNodes = TotalBoundaryNodes(m.landBoundaries)]

\* Mesh::writeAdcircMesh: the file written, section by section
WriteAdcircMeshOf(m, g) ==
  [fmt |-> "ADCIRC", ne |-> m.numElements, nn |-> m.numNodes,
   nodes |-> NodeLines(m), elems |-> ElemLines(m, g),
   nob |-> m.numOpenBoundaries,
   obTotal |-> TotalBoundaryNodes(m.openBoundaries),
   obs |-> BoundaryLines(m.openBoundaries, g),
   nlb |-> m.numLandBoundaries,
   lbTotal |-> TotalBoundaryNodes(m.landBoundaries),
   lbs |-> BoundaryLines(m.landBoundaries, g)]

\* Mesh::write2dmMesh
Write2dmMeshOf(m, g) ==
  [fmt |-> "2DM", elems |-> ElemLines(m, g), nodes |-> NodeLines(m)]

\* Mesh::getMaxNodesPerElement
GetMaxNodesPerElement(m) ==
  IF \E i \in 1..Len(m.elements) : Len(m.elements[i].n) = 4 THEN 4
  ELSE IF \E i \in 1..Len(m.elements) : Len(m.elements[i].n) = 3 THEN 3
  ELSE IF \E i \in 1..Len(m.elements) : Len(m.elements[i].n) = 2 THEN 2
  ELSE 0

\* whether Mesh::writeDflowMesh reads outside m_nodes or m_elements, or
\* through a pointer that does not point into m_nodes
WriteDflowUB(m) ==
  \/ m.numNodes > Len(m.nodes)
  \/ m.numElements > Len(m.elements)
  \/ \E i \in 1..Len(m.elements) : ~ElementValid(m, m.elements[i])

\* Mesh::writeDflowMesh, when every read is a defined one
WriteDflowMeshOf(m) ==
  LET links == GenerateLinkTableOf(m)
      maxelemnode == GetMaxNodesPerElement(m)
      row(e) == [j \in 1..maxelemnode |->
                   IF j <= Len(e.n) THEN Deref(m, e.n[j]).id ELSE NC_FILL_INT]
  IN [fmt |-> "DFLOW", nn |-> m.numNodes, ne |-> m.numElements,
      nmaxnode |-> maxelemnode,
      nodes |-> [i \in 1..m.numNodes |->
                   [x |-> m.nodes[i].x, y |-> m.nodes[i].y, z |-> m.nodes[i].z]],
      links |-> [i \in 1..Len(links) |->
                   <<Deref(m, links[i][1]).id, Deref(m, links[i][2]).id>>],
      elems |-> [i \in 1..m.numElements |-> row(m.elements[i])]]

\* a file written from reads that were not defined holds anything
AnyFile(fmt) == [fmt |-> fmt, garbage |-> TRUE]

\* Mesh::write once the format is settled: what it can end with
WriteOutcomes(m, fmt) ==
  CASE fmt = "ADCIRC" ->
         {[mesh |-> Totalled(m), err |-> FALSE, writer |-> "ADCIRC",
           file |-> WriteAdcircMeshOf(m, g)] : g \in Readings(m)}
    [] fmt = "2DM" ->
         {[mesh |-> m, err |-> FALSE, writer |-> "2DM",
           file |-> Write2dmMeshOf(m, g)] : g \in Readings(m)}
    [] fmt = "DFLOW" ->
         {[mesh |-> m, err |-> FALSE, writer |-> "DFLOW",
           file |-> IF WriteDflowUB(m) THEN AnyFile("DFLOW") ELSE WriteDflowMeshOf(m)]}
    [] OTHER ->
         {[mesh |-> m, err |-> TRUE, writer |-> "none", file |-> << >>]}

\* whether the write can end the process
WriteUB(m, fmt) ==
  \/ fmt \in {"ADCIRC", "2DM"} /\ WildPtrs(m)
  \/ fmt = "DFLOW" /\ WriteDflowUB(m)

\* Mesh::write
Write ==
  /\ pc = "running"
  /\ \E r \in Requests :
       LET fmt == SelectFormat(r.name, r.format)
       IN \/ \E out \in WriteOutcomes(Mesh, fmt) :
               /\ Install(out.mesh)
               /\ Did("write", out.err, r, [writer |-> out.writer, file |-> out.file])
               /\ QueryFrame
          \/ /\ WriteUB(Mesh, fmt)
             /\ Crash("write", r)

\* the netCDF file writeDflowMesh has written, as readDflowMesh sees it
DflowFileOf(w) ==
  File("DFLOW", "ok",
       [i \in 1..Len(w.nodes) |-> NodeLine(i, w.nodes[i].x, w.nodes[i].y, w.nodes[i].z)],
       [i \in 1..Len(w.elems) |-> ElemLine(i, w.elems[i])],
       << >>, << >>, "ok", w.nmaxnode)

\* Mesh::read of the netCDF file the last write has written, asked for as the
\* write was
ReadBack ==
  /\ lastOp = "write" /\ ~lastErr
  /\ lastRes.writer = "DFLOW"
  /\ lastRes.file # AnyFile("DFLOW")
  /\ ReadRequest(DflowFileOf(lastRes.file), lastArg)

NextIO == ReadNamed \/ Write \/ ReadBack

SpecIO == Init /\ [][NextIO]_vars

\* ===================================================== counts and collections
\* Mesh::setNumNodes, setNumElements, setNumOpenBoundaries and
\* setNumLandBoundaries assign the count and nothing else
SetNumNodes ==
  /\ CanEdit
  /\ \E n \in {0, MaxNodes + 1} : Edited("setNumNodes", [Mesh EXCEPT !.numNodes = n], n)

SetNumElements ==
  /\ CanEdit
  /\ \E n \in {0, MaxElems + 1} :
       Edited("setNumElements", [Mesh EXCEPT !.numElements = n], n)

SetNumOpenBoundaries ==
  /\ CanEdit
  /\ \E n \in {0, 2} :
       Edited("setNumOpenBoundaries", [Mesh EXCEPT !.numOpenBoundaries = n], n)

SetNumLandBoundaries ==
  /\ CanEdit
  /\ \E n \in {0, 2} :
       Edited("setNumLandBoundaries", [Mesh EXCEPT !.numLandBoundaries = n], n)

\* addNode, deleteNode, addElement and deleteElement test the position against
\* the count: a position the count admits and the vector does not have is
\* written or erased outside the vector, and the process can die of it
OutOfRangeEdit ==
  /\ CanEdit
  /\ \/ \E index \in 0..(MaxNodes + 1) :
          /\ index < m_numNodes /\ index >= Len(m_nodes)
          /\ \E op \in {"addNode", "deleteNode"} : Crash(op, index)
     \/ \E index \in 0..(MaxElems + 1) :
          /\ index < m_numElements /\ index >= Len(m_elements)
          /\ \E op \in {"addElement", "deleteElement"} : Crash(op, index)

NextCounts ==
  \/ ReadNamed
  \/ SetNumNodes \/ SetNumElements \/ SetNumOpenBoundaries \/ SetNumLandBoundaries
  \/ ResizeMesh \/ AddNode \/ DeleteNode \/ AddElement \/ DeleteElement
  \/ OutOfRangeEdit

SpecCounts == Init /\ [][NextCounts]_vars

\* ==================================================== identifier to position
\* Mesh::node and Mesh::element, on the count of the record kind: whether it
\* throws, and the position of the record it returns
AtPosition(num, index) ==
  IF index < num THEN [err |-> FALSE, k |-> index] ELSE [err |-> TRUE, k |-> -1]

\* Mesh::nodeIndexById: the position, and the lookup afterwards
NodeIndexByIdOf(id) ==
  IF m_nodeOrderingLogical
  THEN [k |-> id - 1, lookup |-> m_nodeLookup]
  ELSE [k |-> LookupGet(m_nodeLookup, id), lookup |-> LookupInsert(m_nodeLookup, {id})]

\* Mesh::elementIndexById: the position, and the lookup afterwards
ElementIndexByIdOf(id) ==
  IF m_elementOrderingLogical
  THEN [k |-> id, lookup |-> m_elementLookup]
  ELSE [k |-> LookupGet(m_elementLookup, id),
        lookup |-> LookupInsert(m_elementLookup, {id})]

\* Mesh::nodeIndexById (identifiers from 1: the position of 0 wraps around)
NodeIndexById ==
  /\ pc = "running"
  /\ nlookups < MaxLookups
  /\ nlookups' = nlookups + 1
  /\ \E id \in 1..(MaxId + 1) :
       /\ Did("nodeIndexById", FALSE, id, NodeIndexByIdOf(id).k)
       /\ m_nodeLookup' = NodeIndexByIdOf(id).lookup
  /\ UNCHANGED <<m_nodes, m_nodesGen, m_elements, m_openBoundaries, m_landBoundaries,
       m_numNodes, m_numElements, m_numOpenBoundaries, m_numLandBoundaries,
       m_totalOpenBoundaryNodes, m_totalLandBoundaryNodes,
       m_nodeOrderingLogical, m_elementOrderingLogical, m_elementLookup, m_epsg,
       treeVars, pc, lastFile, nreads, nedits>>

\* Mesh::elementIndexById
ElementIndexById ==
  /\ pc = "running"
  /\ nlookups < MaxLookups
  /\ nlookups' = nlookups + 1
  /\ \E id \in 1..(MaxElems + 1) :
       /\ Did("elementIndexById", FALSE, id, ElementIndexByIdOf(id).k)
       /\ m_elementLookup' = ElementIndexByIdOf(id).lookup
  /\ UNCHANGED <<m_nodes, m_nodesGen, m_elements, m_openBoundaries, m_landBoundaries,
       m_numNodes, m_numElements, m_numOpenBoundaries, m_numLandBoundaries,
       m_totalOpenBoundaryNodes, m_totalLandBoundaryNodes,
       m_nodeOrderingLogical, m_elementOrderingLogical, m_nodeLookup, m_epsg,
       treeVars, pc, lastFile, nreads, nedits>>

NextIndex ==
  ReadNamed \/ NodeById \/ ElementById \/ NodeIndexById \/ ElementIndexById

SpecIndex == Init /\ [][NextIndex]_vars

\* ========================================================= vertex ordering
\* One element over nodes placed anywhere on a small grid, its vertices in
\* the order of the nodes, and Element::sortVerticiesAboutCenter applied to
\* it in place (as Mesh::readDflowMesh applies it to a stored element).
GridNodes ==
  {[i \in 1..4 |-> [id |-> i, x |-> c[i][1], y |-> c[i][2], z |-> 0]] :
     c \in [1..4 -> (0..MaxCoord) \X (0..MaxCoord)]}

GridMeshes ==
  {[Constructed EXCEPT
      !.nodes = nodes, !.numNodes = 4,
      !.elements = <<[id |-> 1, n |-> [j \in 1..nv |-> Ptr(0, j - 1)]]>>,
      !.numElements = 1] : nodes \in GridNodes, nv \in {3, 4}}

InitSort ==
  \E m \in GridMeshes :
    /\ m_nodes = m.nodes
    /\ m_nodesGen = m.nodesGen
    /\ m_elements = m.elements
    /\ m_openBoundaries = m.openBoundaries
    /\ m_landBoundaries = m.landBoundaries
    /\ m_numNodes = m.numNodes
    /\ m_numElements = m.numElements
    /\ m_numOpenBoundaries = m.numOpenBoundaries
    /\ m_numLandBoundaries = m.numLandBoundaries
    /\ m_totalOpenBoundaryNodes = m.totalOpenBoundaryNodes
    /\ m_totalLandBoundaryNodes = m.totalLandBoundaryNodes
    /\ m_nodeOrderingLogical = m.nodeOrderingLogical
    /\ m_elementOrderingLogical = m.elementOrderingLogical
    /\ m_nodeLookup = m.nodeLookup
    /\ m_elementLookup = m.elementLookup
    /\ m_nodalSearchTree = m.nodalSearchTree
    /\ m_elementalSearchTree = m.elementalSearchTree
    /\ m_epsg = m.epsg
    /\ pc = "running"
    /\ lastOp = "construct"
    /\ lastErr = FALSE
    /\ lastArg = 0
    /\ lastRes = 0
    /\ lastFile = NoFile
    /\ nreads = 0
    /\ nlookups = 0
    /\ nedits = 0
    /\ outputFile = NoOutputFile

\* m_elements[i].sortVerticiesAboutCenter() on every stored element
SortVerticies ==
  /\ pc = "running"
  /\ nedits < MaxSorts
  /\ Edited("sortVerticiesAboutCenter",
            [Mesh EXCEPT !.elements =
               [i \in 1..Len(m_elements) |-> SortVerticiesAboutCenter(Mesh, m_elements[i])]],
            0)

NextSort == SortVerticies

SpecSort == InitSort /\ [][NextSort]_vars

\* ============================================================ the output file
\* Adcirc::Output::OutputFile (src/src/outputfile.cpp).  A file on disk is
\* what the reader finds in it: the type the content probes detect, the
\* number of records and of columns its header announces, its records (each
\* parses or not), and for netCDF the number of data variables with a
\* recognised name and whether one of them is a maximum or minimum.  The
\* header of an ASCII file is the column count it announces; the header of a
\* netCDF file is 1, or 0 when the node dimension is missing.
MaxSnaps == 2

MaxSessionOps == 3

MaxRecordReads == 4

\* the snap argument that asks for the next record
NextOutputSnap == -1

OutputContent(name, type, header, numSnaps, recs, nvars, max) ==
  [name |-> name, exists |-> TRUE, type |-> type, header |-> header,
   numSnaps |-> numSnaps, recs |-> recs, nvars |-> nvars, max |-> max]

OutputDisk ==
  {OutputContent("full.63", "ASCIIFull", 1, 2, <<"ok", "ok">>, 0, FALSE),
   OutputContent("long.63", "ASCIISparse", 2, 1, <<"ok", "ok">>, 0, FALSE),
   OutputContent("cols.63", "ASCIIFull", 3, 1, <<"ok">>, 0, FALSE),
   OutputContent("torn.63", "ASCIIFull", 1, 2, <<"ok", "bad">>, 0, FALSE),
   OutputContent("nc3.nc", "Netcdf3", 1, 2, << >>, 1, FALSE),
   OutputContent("nc4.nc", "Netcdf4", 1, 2, << >>, 1, FALSE),
   OutputContent("vec.nc", "Netcdf4", 1, 1, << >>, 2, FALSE),
   OutputContent("max.nc", "Netcdf4", 1, 1, << >>, 1, TRUE),
   OutputContent("none.nc", "Netcdf4", 1, 1, << >>, 0, FALSE),
   OutputContent("many.nc", "Netcdf4", 1, 1, << >>, 3, FALSE),
   OutputContent("nonode.nc", "Netcdf4", 0, 1, << >>, 1, FALSE),
   OutputContent("other.txt", "Unknown", 1, 0, << >>, 0, FALSE),
   [OutputContent("absent.63", "Unknown", 1, 0, << >>, 0, FALSE)
      EXCEPT !.exists = FALSE]}

OutputNames == {f.name : f \in OutputDisk}

OnDisk(name) == CHOOSE f \in OutputDisk : f.name = name

IsAscii(type) == type \in {"ASCIIFull", "ASCIISparse"}

IsNetcdf(type) == type \in {"Netcdf3", "Netcdf4"}

\* the outcome of an operation on the object: the object afterwards, the
\* error raised ("" when none) and what was returned
Returned(o, res) == [o |-> o, msg |-> "", res |-> res]

Thrown(o, msg) == [o |-> o, msg |-> msg, res |-> -1]

\* OutputFile::setFilename
SetFilenameOf(o, filename) ==
  IF ~o.open THEN Returned([o EXCEPT !.filename = filename], 0)
  ELSE Thrown(o, "Cannot change filename since file currently open")

\* OutputFile::readAsciiHeader, after openAscii: the header of the files of
\* the model parses, and its column count is 1, 2 or something else
ReadAsciiHeaderOf(o, f) ==
  LET h == [o EXCEPT !.numSnaps = f.numSnaps, !.numNodes = 1]
  IN IF f.header = 1 THEN Returned([h EXCEPT !.isVector = FALSE], 0)
     ELSE IF f.header = 2 THEN Returned([h EXCEPT !.isVector = TRUE], 0)
     ELSE Thrown([h EXCEPT !.fid.open = FALSE], "Invalid number of columns in file")

\* OutputFile::findNetcdfVarId
FindNetcdfVarIdOf(o, f) ==
  IF ~o.open THEN Thrown(o, "Netcdf file not open")
  ELSE IF ~(o.filetype # "Netcdf3") \/ ~(o.filetype = "Netcdf4")
  THEN Thrown(o, "Filetype is not netcdf")
  ELSE LET found == [o EXCEPT !.varid_data = o.varid_data + f.nvars,
                              !.isMax = o.isMax \/ (f.max /\ f.nvars > 0)]
       IN IF found.varid_data = 0
          THEN Thrown(found, "No valid netcdf variables found")
          ELSE IF found.varid_data > 2
          THEN Thrown(found, "Too many netcdf variables found")
          ELSE IF found.varid_data = 1
          THEN Returned([found EXCEPT !.isVector = FALSE], 0)
          ELSE Returned([found EXCEPT !.isVector = TRUE], 0)

\* OutputFile::readNetcdfHeader, after openNetcdf: header 0 is a file
\* without the node dimension
ReadNetcdfHeaderOf(o, f) ==
  LET timed == [o EXCEPT !.numSnaps = f.numSnaps]
      h == [timed EXCEPT !.numNodes = 1, !.time = f.numSnaps]
  IN IF f.header = 0 THEN Thrown(timed, "Node dimension not found")
     ELSE FindNetcdfVarIdOf(h, f)

\* OutputFile::open, with openAscii and openNetcdf
OpenOf(o) ==
  LET f == OnDisk(o.filename)
      typed == [o EXCEPT !.filetype = f.type]
  IN IF o.open THEN Thrown(o, "File already open")
     ELSE IF ~f.exists THEN Thrown(o, "File does not exist")
     ELSE IF IsAscii(f.type)
     THEN ReadAsciiHeaderOf(
            [typed EXCEPT !.open = TRUE, !.fid = [open |-> TRUE, pos |-> 0]], f)
     ELSE IF IsNetcdf(f.type)
     THEN ReadNetcdfHeaderOf([typed EXCEPT !.open = TRUE, !.ncid = TRUE], f)
     ELSE Thrown(typed, "No valid file type detected")

\* OutputFile::close, with closeAscii and closeNetcdf
CloseOf(o) ==
  IF ~o.open THEN Thrown(o, "File not open")
  ELSE IF IsAscii(o.filetype)
  THEN Returned([o EXCEPT !.fid.open = FALSE, !.open = FALSE], 0)
  ELSE IF IsNetcdf(o.filetype)
  THEN Returned([o EXCEPT !.ncid = FALSE, !.open = FALSE], 0)
  ELSE Returned(o, 0)

\* the record of snap is appended to m_records and entered in m_recordMap
Appended(o, snap) ==
  [o EXCEPT !.records = Append(o.records, snap),
            !.recordMap = [k \in (DOMAIN o.recordMap) \cup {snap} |->
                             IF k = snap THEN Len(o.records) ELSE o.recordMap[k]],
            !.currentSnap = o.currentSnap + 1]

\* readAsciiRecord has no line to read: the stream is closed or at its end,
\* the line is empty and list[0] is an element of an empty vector
AsciiNoLine(o) ==
  \/ ~o.fid.open
  \/ o.fid.pos >= Len(OnDisk(o.filename).recs)

\* readNetcdfRecord reads m_time[snap] past the end of m_time, or
\* m_varid_data[0] or [1] of a shorter m_varid_data
NetcdfWildRead(o, snap) ==
  \/ snap >= o.time
  \/ o.varid_data = 0
  \/ (~o.isMax /\ o.isVector /\ o.varid_data < 2)

\* the record the snap argument asks readNetcdfRecord for
SnapAsked(o, snap) == IF snap = NextOutputSnap THEN o.currentSnap ELSE snap

\* OutputFile::read, with readAsciiRecord and readNetcdfRecord, on the
\* outcome in which an undefined read, if any, went unnoticed
ReadRecordOf(o, snap) ==
  IF IsAscii(o.filetype)
  THEN IF o.currentSnap > o.numSnaps
       THEN Thrown(o, "Attempt to read past last record in file")
       ELSE IF AsciiNoLine(o)
       THEN Thrown(o, "Error reading ascii record")
       ELSE IF OnDisk(o.filename).recs[o.fid.pos + 1] = "ok"
       THEN Returned(Appended([o EXCEPT !.fid.pos = o.fid.pos + 1], o.currentSnap), 0)
       ELSE Thrown([o EXCEPT !.fid.pos = o.fid.pos + 1], "Error reading ascii record")
  ELSE IF IsNetcdf(o.filetype)
  THEN LET s == SnapAsked(o, snap)
       IN IF s > o.numSnaps
          THEN Thrown(o, "Record requested > number of records in file")
          ELSE IF ~o.ncid \/ o.varid_data = 0
          THEN Thrown(o, "Error reading netcdf record")
          ELSE IF o.isMax THEN Returned(Appended(o, s), 0)
          ELSE IF s >= OnDisk(o.filename).numSnaps
          THEN Thrown(o, "Error reading netcdf record")
          ELSE Returned(Appended(o, s), 0)
  ELSE Thrown(o, "Unknown filetype")

\* the read is undefined: it may kill the process
ReadRecordUB(o, snap) ==
  \/ IsAscii(o.filetype) /\ o.currentSnap <= o.numSnaps /\ AsciiNoLine(o)
  \/ /\ IsNetcdf(o.filetype)
     /\ SnapAsked(o, snap) <= o.numSnaps
     /\ NetcdfWildRead(o, SnapAsked(o, snap))

\* OutputFile::dataAt(position, ok): ok and the returned record, "wild" for
\* what m_records[position] yields past the end of m_records
DataAtOf(o, position) ==
  IF position < Len(o.records)
  THEN [Thrown(o, "Data requested is out of bounds") EXCEPT !.res = [ok |-> FALSE, record |-> -1]]
  ELSE Returned(o, [ok |-> TRUE, record |-> "wild"])

\* what an operation of the OutputFile records about itself
DidOutput(op, out, arg) ==
  /\ outputFile' = out.o
  /\ lastOp' = op
  /\ lastErr' = (out.msg # "")
  /\ lastArg' = arg
  /\ lastRes' = out
  /\ UNCHANGED <<meshVars, treeVars, pc, lastFile>>

\* an assertion that fails ends the process when assertions are compiled in
Aborts(op, arg) == Crash(op, arg)

\* an OutputFile constructed on one of the names, beside a Mesh that is not used
InitOutput ==
  /\ \E filename \in OutputNames, uninitialised \in {0, MaxSnaps} :
       outputFile = OutputConstructed(filename, uninitialised)
  /\ m_nodes = Constructed.nodes
  /\ m_nodesGen = Constructed.nodesGen
  /\ m_elements = Constructed.elements
  /\ m_openBoundaries = Constructed.openBoundaries
  /\ m_landBoundaries = Constructed.landBoundaries
  /\ m_numNodes = Constructed.numNodes
  /\ m_numElements = Constructed.numElements
  /\ m_numOpenBoundaries = Constructed.numOpenBoundaries
  /\ m_numLandBoundaries = Constructed.numLandBoundaries
  /\ m_totalOpenBoundaryNodes = Constructed.totalOpenBoundaryNodes
  /\ m_totalLandBoundaryNodes = Constructed.totalLandBoundaryNodes
  /\ m_nodeOrderingLogical = Constructed.nodeOrderingLogical
  /\ m_elementOrderingLogical = Constructed.elementOrderingLogical
  /\ m_nodeLookup = Constructed.nodeLookup
  /\ m_elementLookup = Constructed.elementLookup
  /\ m_nodalSearchTree = Constructed.nodalSearchTree
  /\ m_elementalSearchTree = Constructed.elementalSearchTree
  /\ m_epsg = Constructed.epsg
  /\ pc = "running"
  /\ lastOp = "construct"
  /\ lastErr = FALSE
  /\ lastArg = 0
  /\ lastRes = 0
  /\ lastFile = NoFile
  /\ nreads = 0
  /\ nlookups = 0
  /\ nedits = 0

CanUse == pc = "running"

\* OutputFile::open
Open ==
  /\ CanUse /\ nedits < MaxSessionOps
  /\ \/ /\ DidOutput("open", OpenOf(outputFile), 0)
        /\ nedits' = nedits + 1
        /\ UNCHANGED <<nreads, nlookups>>
     \/ /\ outputFile.open \/ ~OnDisk(outputFile.filename).exists
        /\ Aborts("open", 0)

\* OutputFile::close
Close ==
  /\ CanUse /\ nedits < MaxSessionOps
  /\ \/ /\ DidOutput("close", CloseOf(outputFile), 0)
        /\ nedits' = nedits + 1
        /\ UNCHANGED <<nreads, nlookups>>
     \/ /\ ~outputFile.open
        /\ Aborts("close", 0)

\* the names setFilename is given
Renames == {"long.63", "nc4.nc"}

\* OutputFile::setFilename
SetFilename ==
  /\ CanUse /\ nedits < MaxSessionOps
  /\ \E filename \in Renames :
       /\ DidOutput("setFilename", SetFilenameOf(outputFile, filename), filename)
       /\ nedits' = nedits + 1
       /\ UNCHANGED <<nreads, nlookups>>

\* OutputFile::read
ReadRecord ==
  /\ CanUse /\ nreads < MaxRecordReads
  /\ \E snap \in {NextOutputSnap} \cup 1..MaxSnaps :
       \/ /\ DidOutput("readRecord", ReadRecordOf(outputFile, snap), snap)
          /\ nreads' = nreads + 1
          /\ UNCHANGED <<nedits, nlookups>>
       \/ /\ ReadRecordUB(outputFile, snap)
          /\ Crash("readRecord", snap)
       \/ /\ IsNetcdf(outputFile.filetype)
          /\ ~(SnapAsked(outputFile, snap) < outputFile.numSnaps) \/ ~outputFile.open
          /\ Aborts("readRecord", snap)

\* OutputFile::dataAt
DataAt ==
  /\ CanUse /\ nlookups < MaxLookups
  /\ \E position \in 0..MaxSnaps :
       \/ /\ DidOutput("dataAt", DataAtOf(outputFile, position), position)
          /\ nlookups' = nlookups + 1
          /\ UNCHANGED <<nreads, nedits>>
       \/ /\ ~(position < Len(outputFile.records))
          /\ Crash("dataAt", position)

NextOutput == Open \/ Close \/ SetFilename \/ ReadRecord \/ DataAt

SpecOutput == InitOutput /\ [][NextOutput]_vars

\* ================================================================= claims
\* what the files say
FileNodes(f) == [i \in 1..Len(f.nodes) |->
  [id |-> f.nodes[i].id, x |-> f.nodes[i].x, y |-> f.nodes[i].y, z |-> f.nodes[i].z]]

ReadSucceeded == lastOp = "read" /\ ~lastErr /\ pc = "running"

ReadFailed == lastOp = "read" /\ lastErr /\ pc = "running" /\ lastFile.exists

MeshEmpty ==
  /\ m_nodes = << >> /\ m_elements = << >>
  /\ m_openBoundaries = << >> /\ m_landBoundaries = << >>
  /\ m_numNodes = 0 /\ m_numElements = 0
  /\ m_numOpenBoundaries = 0 /\ m_numLandBoundaries = 0

\* the collections and counts of a mesh record
Collections(m) ==
  <<m.nodes, m.elements, m.openBoundaries, m.landBoundaries,
    m.numNodes, m.numElements, m.numOpenBoundaries, m.numLandBoundaries>>

\* C1: a read that fails partway leaves the mesh in the freshly-cleared empty
\* state: no nodes, elements or boundaries and zero counts.
C1_FailedReadLeavesMeshEmpty == ReadFailed => MeshEmpty

\* C2: after any sequence of successful reads the collections and counts hold
\* exactly the records of the most recently read file: the nodes are the
\* file's node lines, and every collection and count is what a newly
\* constructed Mesh holds after reading that file alone.
C2_ReadHoldsOnlyLastFile ==
  ReadSucceeded =>
    /\ m_nodes = FileNodes(lastFile)
    /\ \E fresh \in ReadOutcomes(Constructed, lastFile) :
         /\ ~fresh.err
         /\ Collections(fresh) = Collections(Mesh)

UniqueIds == \A i, j \in 1..Len(m_nodes) : m_nodes[i].id = m_nodes[j].id => i = j

SequentialIds == \A i \in 1..Len(m_nodes) : m_nodes[i].id = i

\* C3: after a read of a mesh with unique node identifiers, nodeById(id)
\* returns, for every identifier of the input, the stored node with that
\* identifier; when the identifiers are sequential that is position id - 1.
C3_NodeByIdFindsEveryNode ==
  (ReadSucceeded /\ m_nodes = FileNodes(lastFile) /\ UniqueIds) =>
    \A i \in 1..Len(m_nodes) :
      LET r == NodeByIdOf(m_nodes[i].id)
      IN /\ ~r.err
         /\ r.k = i - 1
         /\ SequentialIds => r.k = m_nodes[i].id - 1

\* an identifier nodeById / elementById has no record for: outside 1..count in
\* sequential numbering, the identifier of no stored record in lookup numbering
NoSuchNode(id) ==
  IF m_nodeOrderingLogical THEN id < 1 \/ id > m_numNodes
  ELSE \A i \in 1..Len(m_nodes) : m_nodes[i].id # id

NoSuchElement(id) ==
  IF m_elementOrderingLogical THEN id < 1 \/ id > m_numElements
  ELSE \A i \in 1..Len(m_elements) : m_elements[i].id # id

\* C4: nodeById and elementById on an identifier that is out of range or was
\* never present raise the not-found error, return no record and leave the
\* identifier index as it was, in both numbering modes.
C4_ByIdOfAbsentIdThrows ==
  [][/\ (lastOp' = "nodeById" /\ nlookups' = nlookups + 1 /\ NoSuchNode(lastArg'))
          => (lastErr' /\ m_nodeLookup' = m_nodeLookup)
     /\ (lastOp' = "elementById" /\ nlookups' = nlookups + 1 /\ NoSuchElement(lastArg'))
          => (lastErr' /\ m_elementLookup' = m_elementLookup)]_vars

\* C5: after a successful read in any format the node ordering flag is true
\* exactly when every position i (0-based) holds the node with identifier i + 1.
C5_NodeFlagIffSequential ==
  ReadSucceeded => (m_nodeOrderingLogical <=> SequentialIds)

\* C6: after a successful native-ASCII read the element ordering flag is true
\* exactly when every element at position i has identifier i + 1, whatever the
\* node identifiers of the file were.
C6_ElementFlagIffSequential ==
  (ReadSucceeded /\ lastFile.fmt = "ADCIRC") =>
    (m_elementOrderingLogical <=> \A i \in 1..Len(m_elements) : m_elements[i].id = i)

\* the steps that are a query on the nodal tree, and on the elemental tree
NodalQueryStep == lastOp' = "findNearestNode"

ElementalQueryStep == lastOp' \in {"findNearestElement", "findElement"}

\* the query ran to its end on a tree over the current mesh
NodalAnswered ==
  /\ pc' = "running"
  /\ m_nodalSearchTree' = [null |-> FALSE, pts |-> NodalPoints(Mesh)]

ElementalAnswered ==
  /\ pc' = "running"
  /\ ~m_elementalSearchTree'.null
  /\ m_elementalSearchTree'.pts \in ElementalPoints(Mesh)

\* C7: the first findNearestNode, findNearestElement or findElement on a mesh
\* that holds no spatial index (freshly constructed or freshly read) builds
\* the index it needs and answers; the caller need not build it first.
C7_FirstQueryBuildsIndex ==
  [][ /\ (NodalQueryStep /\ m_nodalSearchTree.null) => NodalAnswered
      /\ (ElementalQueryStep /\ m_elementalSearchTree.null) => ElementalAnswered
    ]_vars

\* C8: a built index is kept as it is by every query; an explicit delete of a
\* built index leaves it absent; and the query that follows an explicit
\* delete rebuilds the index and answers.
C8_IndexRetainedUntilDeleted ==
  [][ /\ (NodalQueryStep /\ ~m_nodalSearchTree.null)
           => m_nodalSearchTree' = m_nodalSearchTree
      /\ (ElementalQueryStep /\ ~m_elementalSearchTree.null)
           => m_elementalSearchTree' = m_elementalSearchTree
      /\ (lastOp' = "deleteNodalSearchTree" /\ ~m_nodalSearchTree.null)
           => (pc' = "running" /\ m_nodalSearchTree'.null)
      /\ (lastOp' = "deleteElementalSearchTree" /\ ~m_elementalSearchTree.null)
           => (pc' = "running" /\ m_elementalSearchTree'.null)
      /\ (lastOp = "deleteNodalSearchTree" /\ NodalQueryStep) => NodalAnswered
      /\ (lastOp = "deleteElementalSearchTree" /\ ElementalQueryStep)
           => ElementalAnswered
    ]_vars

\* the steps that are a mesh edit
EditStep == nedits' = nedits + 1

\* C9: addNode, deleteNode, addElement, deleteElement, resizeMesh, setZ and
\* reproject leave both spatial indices as they were: an index keeps the
\* point set it was built from.
C9_EditsLeaveIndicesUnchanged ==
  [][ EditStep => UNCHANGED treeVars ]_vars

\* a node was deleted under both indices, and the nodal index still holds the
\* point of the node that is gone
C9_EditedUnderBuiltIndices ==
  /\ lastOp = "deleteNode" /\ ~lastErr
  /\ ~m_nodalSearchTree.null /\ ~m_elementalSearchTree.null
  /\ Len(m_nodalSearchTree.pts) = Len(m_nodes) + 1
  /\ m_nodalSearchTree.pts # NodalPoints(Mesh)

\* what findElement is to return: the first of the nearest centroids, up to
\* the candidate depth, whose element contains the location, or -1
FirstContaining(m, tree, loc) ==
  LET cands == XNearest(tree, loc, searchDepth)
      hits == {r \in 1..Len(cands) :
                 /\ cands[r] < Len(m.elements)
                 /\ ElementValid(m, m.elements[cands[r] + 1])
                 /\ IsInside(m, m.elements[cands[r] + 1], loc)}
  IN IF hits = {} THEN -1
     ELSE cands[CHOOSE r \in hits : \A q \in hits : r <= q]

\* C10: findElement returns the position of the first of the (at most 20)
\* nearest centroids whose element contains the location, and -1 when none
\* of them does.
C10_FindElementReturnsFirstContaining ==
  [][ lastOp' = "findElement" =>
        /\ pc' = "running"
        /\ ~lastErr'
        /\ ~m_elementalSearchTree'.null
        /\ lastRes' = FirstContaining(Mesh, m_elementalSearchTree', Locs[lastArg'])
    ]_vars

\* the location lies in the interior of the polygon of e
StrictlyInside(m, e, loc) ==
  LET nv == Len(e.n)
      v(j) == Deref(m, e.n[((j - 1) % nv) + 1])
      side(j) == (v(j + 1).x - v(j).x) * (loc[2] - v(j).y)
                 - (v(j + 1).y - v(j).y) * (loc[1] - v(j).x)
  IN \/ \A j \in 1..nv : side(j) > 0
     \/ \A j \in 1..nv : side(j) < 0

\* the positions of the elements of the mesh that hold the location
Holders(loc) ==
  {i \in 1..Len(m_elements) :
     ElementValid(Mesh, m_elements[i]) /\ IsInside(Mesh, m_elements[i], loc)}

\* the mesh is the triangulated square as the file gave it
RegularMesh ==
  /\ lastFile \in GeoFiles
  /\ nedits = 0
  /\ m_numElements = Len(m_elements)
  /\ \A i \in 1..Len(m_elements) : ElementValid(Mesh, m_elements[i])

\* C11: on the regular triangular mesh, findElement of a location strictly
\* inside exactly one element returns the identifier of that element, and
\* findElement of a location outside every element reports not-found (-1).
C11_FindElementReturnsContainingId ==
  [][ (lastOp' = "findElement" /\ RegularMesh) =>
        LET loc == Locs[lastArg']
        IN /\ \A i \in Holders(loc) :
                (Holders(loc) = {i} /\ StrictlyInside(Mesh, m_elements[i], loc))
                  => (pc' = "running" /\ ~lastErr' /\ lastRes' = m_elements[i].id)
           /\ Holders(loc) = {} => (pc' = "running" /\ ~lastErr' /\ lastRes' = -1)
    ]_vars

\* the positions (0-based) of the stored nodes nearest the location
NearestStoredNodes(loc) ==
  {i - 1 : i \in {k \in 1..Len(m_nodes) :
     \A j \in 1..Len(m_nodes) :
       Dist2(Pt(m_nodes[k].x, m_nodes[k].y), loc) <= Dist2(Pt(m_nodes[j].x, m_nodes[j].y), loc)}}

\* C12: findNearestNode returns the storage position of a stored node whose
\* distance to the location is least among all stored nodes.
C12_FindNearestNodeReturnsNearest ==
  [][ (lastOp' = "findNearestNode" /\ m_nodes # << >>) =>
        /\ pc' = "running"
        /\ ~lastErr'
        /\ lastRes' \in NearestStoredNodes(Locs[lastArg'])
    ]_vars

\* on which side of the line from a to b the position c lies
Side(a, b, c) == (b.x - a.x) * (c.y - a.y) - (b.y - a.y) * (c.x - a.x)

\* the sides of the polygon of e, as sets of two node positions: every pair of
\* vertices of a triangle, and the pairs of vertices of a quadrilateral that
\* have its other two vertices strictly on one side
Sides(e) ==
  LET V == {e.n[j].k : j \in 1..Len(e.n)}
      at(k) == m_nodes[k + 1]
      side(a, b) ==
        \/ Len(e.n) = 3
        \/ \A d \in V \ {a, b} : Side(at(a), at(b), at(d)) > 0
        \/ \A d \in V \ {a, b} : Side(at(a), at(b), at(d)) < 0
  IN {{p[1], p[2]} : p \in {q \in V \X V : q[1] # q[2] /\ side(q[1], q[2])}}

\* the mesh generateLinkTable is defined on: identifiers name one node each,
\* every element points at 3 or 4 different stored nodes, and the vertices of
\* a quadrilateral are the corners of a convex polygon
LinkableMesh ==
  /\ IsInjective([i \in 1..Len(m_nodes) |-> m_nodes[i].id])
  /\ \A i \in 1..Len(m_elements) :
       /\ ElementValid(Mesh, m_elements[i])
       /\ Cardinality({m_elements[i].n[j].k : j \in 1..Len(m_elements[i].n)})
            = Len(m_elements[i].n)
       /\ Cardinality(Sides(m_elements[i])) = Len(m_elements[i].n)

MeshEdges == UNION {Sides(m_elements[i]) : i \in 1..Len(m_elements)}

ElementsReversed ==
  [Mesh EXCEPT !.elements =
     [i \in 1..Len(m_elements) |-> m_elements[Len(m_elements) + 1 - i]]]

\* C13: generateLinkTable returns one entry for every pair of nodes that are
\* consecutive around some element and no other entry, each entry with the
\* node of the smaller identifier first, and returns the same table when the
\* elements are stored in the opposite order.
C13_LinkTableIsEdgeSet ==
  (lastOp = "generateLinkTable" /\ pc = "running" /\ LinkableMesh) =>
    /\ {{lastRes[i][1].k, lastRes[i][2].k} : i \in 1..Len(lastRes)} = MeshEdges
    /\ Len(lastRes) = Cardinality(MeshEdges)
    /\ \A i \in 1..Len(lastRes) :
         Deref(Mesh, lastRes[i][1]).id < Deref(Mesh, lastRes[i][2]).id
    /\ lastRes = GenerateLinkTableOf(ElementsReversed)

\* the link table of the two triangles that share the diagonal of the square
\* has been taken: 5 entries
C13_TwoTrianglesFiveEdges ==
  /\ lastOp = "generateLinkTable" /\ pc = "running" /\ LinkableMesh
  /\ m_numElements = 2 /\ Len(m_nodes) = 4
  /\ Len(lastRes) = 5

\* C14: ordering the vertices of an element about its centroid a second time
\* leaves them in the order the first ordering gave.
C14_SortIdempotent ==
  [][ (lastOp = "sortVerticiesAboutCenter" /\ lastOp' = "sortVerticiesAboutCenter"
       /\ nedits' = nedits + 1) => m_elements' = m_elements ]_vars

\* the vertices have been ordered twice, and the order is not the one the
\* element started with
C14_SortedTwice ==
  /\ lastOp = "sortVerticiesAboutCenter" /\ nedits = 2
  /\ Len(m_elements[1].n) = 4
  /\ m_elements[1].n # [j \in 1..4 |-> Ptr(0, j - 1)]

\* the format the names stand for: by the end of the name, then by _net.nc
EndsWith(str, suffix) ==
  /\ Len(str) >= Len(suffix)
  /\ SubSeq(str, Len(str) - Len(suffix) + 1, Len(str)) = suffix

InferredFormat(name) ==
  IF EndsWith(name, Ext14) \/ EndsWith(name, ExtGrd) THEN "ADCIRC"
  ELSE IF EndsWith(name, Ext2dm) THEN "2DM"
  ELSE IF Contains(name, NetNc) THEN "DFLOW"
  ELSE "UNKNOWN"

\* the reader or the writer the last read or write ran
Ran == IF lastOp = "read" THEN lastRes.reader ELSE lastRes.writer

FormatInferred ==
  /\ lastOp \in {"read", "write"}
  /\ pc = "running"
  /\ lastArg.format = "UNKNOWN"
  /\ lastOp = "read" => lastFile.exists

\* C15: a read or write given no format runs the reader or writer of the
\* format its file name stands for (.14 and .grd native, .2dm generic,
\* otherwise _net.nc netCDF); for any other name it raises an error and runs
\* no reader or writer: nothing is loaded, nothing is written.
C15_FormatInferredFromName ==
  FormatInferred =>
    IF InferredFormat(lastArg.name) = "UNKNOWN"
    THEN /\ lastErr
         /\ Ran = "none"
         /\ lastOp = "read" => (m_nodes = << >> /\ m_elements = << >>)
         /\ lastOp = "write" => lastRes.file = << >>
    ELSE Ran = InferredFormat(lastArg.name)

\* a second read, of an existing file whose name stands for no format, has
\* raised its error
C15_UnknownNameRefused ==
  /\ FormatInferred
  /\ lastOp = "read" /\ nreads = 2
  /\ InferredFormat(lastArg.name) = "UNKNOWN"
  /\ lastErr

\* C16: after a successful read of a 2dm or a DFlow file the mesh has no open
\* and no land boundary, and its boundary counts and total boundary node
\* counts are zero, whatever the object held before.
C16_NoBoundariesAfterBoundarylessRead ==
  (lastOp = "read" /\ pc = "running" /\ ~lastErr /\ lastRes.reader \in {"2DM", "DFLOW"})
    => /\ m_openBoundaries = << >>
       /\ m_landBoundaries = << >>
       /\ m_numOpenBoundaries = 0
       /\ m_numLandBoundaries = 0
       /\ m_totalOpenBoundaryNodes = 0
       /\ m_totalLandBoundaryNodes = 0

\* a DFlow file has been read into an object that held an open and a land
\* boundary and had counted their nodes
C16_BoundarylessReadOverBoundaries ==
  /\ lastOp = "read" /\ pc = "running" /\ ~lastErr
  /\ lastRes.reader = "DFLOW"
  /\ lastRes.boundariesBefore = 2
  /\ lastRes.totalBefore = 2

\* C17: when a read returns or raises its error, it holds nothing it has
\* acquired: the netCDF handle is closed and the temporary arrays are freed.
C17_ReadReleasesResources ==
  (lastOp = "read" /\ pc = "running") => lastRes.held = {}

\* the number of nodes record i of the element section of file f names
RecordArity(f, i) ==
  IF f.fmt = "DFLOW" THEN f.nmaxnode - FillCount(f.elems[i].n) ELSE Len(f.elems[i].n)

\* C18: after a successful read every stored element has 3 or 4 node
\* references, and the file read has no element record naming another number
\* of nodes (such a record makes the read fail).
C18_ElementsHaveThreeOrFourNodes ==
  (lastOp = "read" /\ pc = "running" /\ ~lastErr)
    => /\ \A i \in 1..Len(m_elements) : Len(m_elements[i].n) \in {3, 4}
       /\ \A i \in 1..Len(lastFile.elems) : RecordArity(lastFile, i) \in {3, 4}

\* the node identifiers the element records (of 3 or 4 nodes) and the boundary
\* records of file f name
ReferencedIds(f) ==
  UNION {Range(f.elems[i].n) \ {NC_FILL_INT} :
           i \in {k \in 1..Len(f.elems) : f.elems[k].ok /\ RecordArity(f, k) \in {3, 4}}}
  \cup UNION {BoundaryTouches(fb) : fb \in Range(f.obs) \cup Range(f.lbs)}

\* those of them that no node record of f carries
MissingIds(f) ==
  ReferencedIds(f) \ {f.nodes[i].id : i \in {k \in 1..Len(f.nodes) : f.nodes[k].ok}}

\* C19: a read of a file in which an element or boundary record names a node
\* identifier that no node record carries raises an error, and the identifier
\* index has no entry for that identifier afterwards.
C19_MissingNodeFailsRead ==
  (lastOp = "read" /\ pc = "running" /\ lastFile.exists /\ MissingIds(lastFile) # {})
    => /\ lastErr
       /\ MissingIds(lastFile) \cap DOMAIN m_nodeLookup = {}

\* the total a boundary section of a file declares: the lines of its boundaries
RECURSIVE FileTotal(_)
FileTotal(fbs) ==
  IF fbs = << >> THEN 0 ELSE Len(Head(fbs).lines) + FileTotal(Tail(fbs))

Ids(lines) == [i \in 1..Len(lines) |-> lines[i].id]

\* the node and the element lines of file f carry the identifiers 1, 2, ...
Sequential(f) ==
  /\ \A i \in 1..Len(f.nodes) : f.nodes[i].id = i
  /\ \A i \in 1..Len(f.elems) : f.elems[i].id = i

\* the written file w has the counts of the file f, and for a sequential f
\* its identifiers, connectivity and boundary lines
Reproduces(w, f) ==
  /\ w.nn = f.nn /\ w.ne = f.ne
  /\ w.nob = Len(f.obs) /\ w.nlb = Len(f.lbs)
  /\ w.obTotal = FileTotal(f.obs) /\ w.lbTotal = FileTotal(f.lbs)
  /\ Sequential(f) =>
       /\ Ids(w.nodes) = Ids(f.nodes)
       /\ w.elems = f.elems
       /\ w.obs = f.obs
       /\ w.lbs = f.lbs

\* a native write follows a successful native read
WrittenAfterRead ==
  /\ lastOp = "read" /\ pc = "running" /\ ~lastErr /\ lastRes.reader = "ADCIRC"
  /\ lastOp' = "write" /\ pc' = "running" /\ lastRes'.writer = "ADCIRC"

\* C20: a native-ASCII write that follows a successful native-ASCII read
\* writes the node, element and boundary counts and the boundary node totals
\* of the file read and, when the file's identifiers are sequential, its
\* identifiers, connectivity and boundary lines.
C20_RoundTrip ==
  [][WrittenAfterRead => Reproduces(lastRes'.file, lastFile)]_vars

\* the storage positions of the vertices of an element, in its order
Positions(e) == [j \in 1..Len(e.n) |-> e.n[j].k]

\* the same polygon: the same vertices in the same cyclic order
SameCycle(a, b) ==
  /\ Len(a) = Len(b)
  /\ \E r \in 0..(Len(a) - 1) :
       \A j \in 1..Len(a) : b[j] = a[((j - 1 + r) % Len(a)) + 1]

\* the file writeDflowMesh wrote from a mesh of triangles and quadrilaterals
\* is read back
MixedReadBack ==
  /\ lastOp = "write" /\ pc = "running" /\ ~lastErr
  /\ lastRes.writer = "DFLOW" /\ lastRes.file # AnyFile("DFLOW")
  /\ \E i, j \in 1..Len(m_elements) :
       Len(m_elements[i].n) = 3 /\ Len(m_elements[j].n) = 4
  /\ lastOp' = "read" /\ pc' = "running"
  /\ lastFile' = DflowFileOf(lastRes.file)

\* C21: reading back the file writeDflowMesh wrote from a mixed mesh succeeds
\* and gives every element the node count it had and the same vertices (by
\* storage position, the nodes being written in storage order) in the same
\* cyclic order.
C21_DflowRoundTrip ==
  [][MixedReadBack =>
       /\ ~lastErr'
       /\ Len(m_elements') = Len(m_elements)
       /\ \A i \in 1..Len(m_elements) :
            SameCycle(Positions(m_elements[i]), Positions(m_elements'[i]))]_vars

\* the node identifiers the line of the last file read gave element e, when e
\* comes from that file
ResolvedIds(e) ==
  LET from == {k \in 1..Len(lastFile.elems) : lastFile.elems[k].id = e.id}
  IN IF from = {} THEN << >> ELSE lastFile.elems[CHOOSE k \in from : TRUE].n

\* C22: every node reference a stored element holds points at a node that is
\* stored in m_nodes, and that node carries the identifier the reference was
\* resolved from.
C22_ReferencesDenoteTheirNodes ==
  pc = "running" =>
    \A i \in 1..Len(m_elements) : \A j \in 1..Len(m_elements[i].n) :
      /\ ValidPtr(Mesh, m_elements[i].n[j])
      /\ ResolvedIds(m_elements[i]) # << >>
           => Deref(Mesh, m_elements[i].n[j]).id = ResolvedIds(m_elements[i])[j]

\* C23: the four counts are the sizes of the four collections.
C23_CountsAreSizes ==
  pc = "running" =>
    /\ m_numNodes = Len(m_nodes)
    /\ m_numElements = Len(m_elements)
    /\ m_numOpenBoundaries = Len(m_openBoundaries)
    /\ m_numLandBoundaries = Len(m_landBoundaries)

\* what the node ordering flag and the node lookup promise of the stored nodes
NodesOrdered ==
  IF m_nodeOrderingLogical
  THEN \A i \in 1..Len(m_nodes) : m_nodes[i].id = i
  ELSE \A i \in 1..Len(m_nodes) :
         /\ m_nodes[i].id \in DOMAIN m_nodeLookup
         /\ m_nodeLookup[m_nodes[i].id] = i - 1

\* C24: when the node ordering flag is true the node at position i (0-based)
\* has identifier i + 1, and when it is false the node lookup maps the
\* identifier of every stored node to the position the node is stored at;
\* after reads and after addNode and deleteNode alike.
C24_NodeOrderingHolds ==
  (pc = "running" /\ lastOp \in {"read", "addNode", "deleteNode"} /\ ~lastErr)
    => NodesOrdered

\* C25: for every identifier of the mesh, the position nodeIndexById gives is
\* the position of the node nodeById returns, and the position
\* elementIndexById gives is the position of the element elementById returns,
\* so that node(nodeIndexById(id)) and element(elementIndexById(id)) are those
\* records; with sequential numbering both positions are id - 1.
C25_IndexByIdAgreesWithById ==
  [][/\ (lastOp' = "nodeIndexById" /\ nlookups' = nlookups + 1 /\ ~NoSuchNode(lastArg'))
          => /\ AtPosition(m_numNodes, lastRes')
                  = [err |-> FALSE, k |-> NodeByIdOf(lastArg').k]
             /\ m_nodeOrderingLogical => lastRes' = lastArg' - 1
     /\ (lastOp' = "elementIndexById" /\ nlookups' = nlookups + 1
           /\ ~NoSuchElement(lastArg'))
          => /\ AtPosition(m_numElements, lastRes')
                  = [err |-> FALSE, k |-> ElementByIdOf(lastArg').k]
             /\ m_elementOrderingLogical => lastRes' = lastArg' - 1]_vars

\* C26: after a successful read that found non-sequential numbering, of a
\* file whose records name only node identifiers the file has, the keys of
\* the identifier index of that record kind are exactly the identifiers of
\* the records now stored: no key is left over from an earlier read.
C26_NoStaleIndexEntries ==
  (ReadSucceeded /\ MissingIds(lastFile) = {}) =>
    /\ ~m_nodeOrderingLogical
         => DOMAIN m_nodeLookup = {m_nodes[i].id : i \in 1..Len(m_nodes)}
    /\ ~m_elementOrderingLogical
         => DOMAIN m_elementLookup = {m_elements[i].id : i \in 1..Len(m_elements)}

\* C27: dataAt(position, ok) returns the record stored at the position with
\* ok true when the position is smaller than the number of records held, and
\* raises the out-of-bounds error with ok false when it is not.
C27_DataAtChecksPosition ==
  [][lastOp' = "dataAt" =>
       /\ pc' = "running"
       /\ IF lastArg' < Len(outputFile.records)
          THEN /\ ~lastErr'
               /\ lastRes'.res.ok
               /\ lastRes'.res.record = outputFile.records[lastArg' + 1]
          ELSE /\ lastErr'
               /\ ~lastRes'.res.ok]_vars

\* C28: the open flag changes only by an open that succeeds (to true) and by
\* a close (to false); open on an open file and close on a file that is not
\* open raise an error and leave the flag as it was; setFilename sets the
\* name when the file is not open and raises an error, leaving the name, when
\* it is open; nothing else changes the flag or the name.
C28_OpenCloseSession ==
  [][/\ lastOp' = "open" =>
          IF outputFile.open THEN lastErr' /\ outputFile'.open
          ELSE outputFile'.open <=> ~lastErr'
     /\ lastOp' = "close" =>
          /\ ~outputFile'.open
          /\ lastErr' <=> ~outputFile.open
     /\ lastOp' = "setFilename" =>
          IF outputFile.open
          THEN lastErr' /\ outputFile'.filename = outputFile.filename
          ELSE ~lastErr' /\ outputFile'.filename = lastArg'
     /\ lastOp' \notin {"open", "close"} => outputFile'.open = outputFile.open
     /\ lastOp' # "setFilename" => outputFile'.filename = outputFile.filename]_vars

\* C29: a read of an ASCII file that has had as many records read as its
\* header announces raises the read-past-last-record error and neither reads
\* from the file nor appends a record; a read of a netCDF file for a snap
\* that is not smaller than the number of snaps raises an error and appends
\* no record.
C29_ReadStopsAtLastRecord ==
  [][lastOp' = "readRecord" =>
       /\ (IsAscii(outputFile.filetype) /\ outputFile.currentSnap >= outputFile.numSnaps)
            => /\ pc' = "running"
               /\ lastRes'.msg = "Attempt to read past last record in file"
               /\ outputFile' = outputFile
       /\ (IsNetcdf(outputFile.filetype)
             /\ ~(SnapAsked(outputFile, lastArg') < outputFile.numSnaps))
            => /\ lastErr'
               /\ outputFile'.records = outputFile.records]_vars

\* C30: an open that reaches findNetcdfVarId on a file detected as Netcdf3 or
\* Netcdf4 does not raise 'Filetype is not netcdf'; it ends with the vector
\* flag false when the file has one recognised data variable and true when
\* it has two, and raises an error when it has none or more than two.
C30_NetcdfVariablesFound ==
  [][(/\ lastOp' = "open"
      /\ ~outputFile.open
      /\ OnDisk(outputFile.filename).exists
      /\ IsNetcdf(OnDisk(outputFile.filename).type)
      /\ OnDisk(outputFile.filename).header = 1) =>
       LET nvars == OnDisk(outputFile.filename).nvars
       IN /\ lastRes'.msg # "Filetype is not netcdf"
          /\ nvars = 1 => ~lastErr' /\ ~outputFile'.isVector
          /\ nvars = 2 => ~lastErr' /\ outputFile'.isVector
          /\ nvars \notin {1, 2} => lastErr']_vars

====
